---- MODULE Spec2Model ----
(***************************************************************************)
(* Verification model of the ref_dx12 renderer core of quake2-vs2015:      *)
(*   - the light baker (LightBaker: PreBake, BakeJob workers, PostBake,     *)
(*     SaveBakingResultsToFile / LoadBakingResultsFromFile),                *)
(*   - the frame-graph builder (ValidateResources, CreateResourceArguments, *)
(*     _AddRootArg, CompileFrameGraph, BuildFrameGraph).                    *)
(* Each subsystem has its own specification over its own group of          *)
(* variables; the variables of the other groups stay at their initial      *)
(* value.  The model is the _DEBUG build: assert / DX_ASSERT abort; the     *)
(* buffer allocator is modelled in the build without asserts as well.       *)
(***************************************************************************)
EXTENDS Integers, Sequences, FiniteSets, TLC

VARIABLES
    \* ---- light baker (LightBaker members) ----
    bspClusterAABB,                  \* BSPTree: optional AABB of cluster c at c + 1 (NoValue: no such cluster)
    transferableData,                \* BakingData being produced
    clusterBakePoints,               \* vector<vector<XMFLOAT4>>
    currentBakeCluster,              \* std::atomic<int>
    probesBaked,                     \* std::atomic<int>
    isContainCompleteBakingResult,   \* std::atomic<bool>
    bakePosition,                    \* std::optional<XMFLOAT4>, as the cluster holding it
    bakeFlags,                       \* BakeFlags::SaveToFileAfterBake
    bakerPhase,                      \* position of the main thread in the bake cycle
    bakesStarted,                    \* number of PreBake calls so far
    wpc,                             \* per worker: position inside BakeJob
    wCluster,                        \* per worker: local currentCluster
    wPoint,                          \* per worker: local bakePointIndex
    wComplete,                       \* per worker: value computed at line 575, not yet stored
    clusterClaims,                   \* history: cluster index -> workers that claimed it
    probeWriters,                    \* history: probe index -> workers that wrote it
    probeStatus,                     \* history: probe index -> "none", "partial" or "final"
    rendererBakingResult,            \* Renderer: the consumed BakingData
    bakingDataFile,                  \* content of the baked-data file on disk
    savedBakingData,                 \* history: the BakingData last given to SaveBakingResultsToFile
    \* ---- frame-graph compiler (FrameGraphBuilder::CompileFrameGraph) ----
    source,                          \* FrameGraphSource: pass list and PassParametersSources
    compiled,                        \* optional outcome of CompileFrameGraph(source)
    \* ---- frame-graph hot reload (FrameGraphBuilder::BuildFrameGraph) ----
    outFrameGraph,                   \* the caller's std::unique_ptr<FrameGraph>: optional frame graph
    sourceWatchHandle,               \* "INVALID_HANDLE_VALUE", "waiting" or "signalled"
    diskSource,                      \* the pass files and frame-graph file on disk
    framesInFlight,                  \* frames submitted to the GPU that have not fence-completed
    buildPc,                         \* position of the main thread inside BuildFrameGraph
    buildReturn,                     \* how the last BuildFrameGraph call ended
    graphBeforeCall,                 \* history: outFrameGraph when the current call started
    flushedFrames,                   \* history: optional number of frames the current call flushed
    buildFailure,                    \* history: the step at which the current rebuild failed
    \* ---- FrameGraphBuilder::PreprocessPassFiles (one pass file) ----
    currentFile,                     \* passFiles[name]: the text, a sequence of characters
    fileIncludes,                    \* context.includes[name]: the include directives of the file
    preprocessed,                    \* optional outcome of PreprocessPassFiles for the file
    \* ---- CalculateDistanceFalloff ----
    falloffArgs,                     \* the arguments dist, dist0, distMax of a call
    falloffResult,                   \* optional value the call returned
    \* ---- BufferAllocator<SIZE> and HandlerBuffer<BUFFER_SIZE, HANDLERS_NUM> (dx_buffer.h) ----
    allocations,                     \* BufferAllocator::allocations: the std::list of Allocation records
    m_handlers,                      \* HandlerBuffer::m_handlers: the offset of each handler, counted from 0
    assertsEnabled,                  \* the build: TRUE when assert is compiled in (no NDEBUG)
    bufferCall,                      \* the last call: operation, argument, returned value, how it ended
    handlerOffsets,                  \* history: the offset each live handler obtained when it was allocated
    \* ---- StaticObject, DynamicObjectModel, DynamicObjectConstBuffer values (dx_objects.cpp) ----
    objectType,                      \* the class of the values of this run
    objects,                         \* the values: whether each is constructed, and its offset or handler fields
    acquiredResources,               \* the number of offsets or handlers handed to values so far
    releases,                        \* history: how often each offset or handler was given back to the Renderer
    \* ---- Frame values and the descriptor heaps they use (dx_frame.cpp) ----
    frames,                          \* the Frame values: whether each is constructed, and its depthBufferViewIndex
    dsvHeap,                         \* the indices allocated in Renderer::dsvHeap
    rtvHeap,                         \* the indices allocated in Renderer::rtvHeap
    heapDeletes,                     \* history: the Delete calls, with the heap, the index and whether it was allocated there
    \* ---- LightBaker::PathTraceFromProbe (one call) ----
    pathPc,                          \* position of the call inside PathTraceFromProbe
    rayBounce,                       \* the local rayBounce
    pathFlags,                       \* bakeFlags SaveRayPath and SaveLightSampling during the call
    pathSegments,                    \* the number of segments in result.pathSegments
    lightSamples,                    \* the number of entries in result.lightSamples
    pathHits,                        \* history: the isIntersected of each closest-hit query of the call
    rouletteDraws                    \* history: the number of Russian-roulette samples drawn

bakerVars == <<bspClusterAABB, transferableData, clusterBakePoints, currentBakeCluster,
               probesBaked, isContainCompleteBakingResult, bakePosition, bakeFlags,
               bakerPhase, bakesStarted, wpc, wCluster, wPoint, wComplete,
               clusterClaims, probeWriters, probeStatus, rendererBakingResult, bakingDataFile,
               savedBakingData>>

compileVars == <<source, compiled>>

buildVars == <<outFrameGraph, sourceWatchHandle, diskSource, framesInFlight, buildPc,
               buildReturn, graphBeforeCall, flushedFrames, buildFailure>>

preprocessVars == <<currentFile, fileIncludes, preprocessed>>

falloffVars == <<falloffArgs, falloffResult>>

bufferVars == <<allocations, m_handlers, assertsEnabled, bufferCall, handlerOffsets>>

objectVars == <<objectType, objects, acquiredResources, releases>>

frameVars == <<frames, dsvHeap, rtvHeap, heapDeletes>>

pathVars == <<pathPc, rayBounce, pathFlags, pathSegments, lightSamples, pathHits, rouletteDraws>>

vars == <<bakerVars, compileVars, buildVars, preprocessVars, falloffVars,
         bufferVars,
         objectVars,
         frameVars,
         pathVars>>

\* what the actions of one subsystem leave alone
nonBakerVars == <<compileVars, buildVars, preprocessVars, falloffVars,
    bufferVars,
    objectVars,
    frameVars,
    pathVars>>

nonCompileVars == <<bakerVars, buildVars, preprocessVars, falloffVars,
    bufferVars,
    objectVars,
    frameVars,
    pathVars>>

nonBuildVars == <<bakerVars, compileVars, preprocessVars, falloffVars,
    bufferVars,
    objectVars,
    frameVars,
    pathVars>>

nonPreprocessVars == <<bakerVars, compileVars, buildVars, falloffVars,
    bufferVars,
    objectVars,
    frameVars,
    pathVars>>

nonFalloffVars == <<bakerVars, compileVars, buildVars, preprocessVars,
    bufferVars,
    objectVars,
    frameVars,
    pathVars>>

nonBufferVars == <<bakerVars, compileVars, buildVars, preprocessVars, falloffVars,
    objectVars,
    frameVars,
    pathVars>>

nonObjectVars == <<bakerVars, compileVars, buildVars, preprocessVars, falloffVars, bufferVars,
    frameVars,
    pathVars>>

nonFrameVars == <<bakerVars, compileVars, buildVars, preprocessVars, falloffVars, bufferVars, objectVars,
    pathVars>>

nonPathVars == <<bakerVars, compileVars, buildVars, preprocessVars, falloffVars, bufferVars, objectVars, frameVars>>

----------------------------------------------------------------------------
(* Bounds of the model *)

NumWorkers == 2          \* size of the thread pool running BakeJob
MaxBakes == 1            \* bake cycles per behaviour

Workers == 1..NumWorkers

\* std::optional<T>: the empty tuple, or the one-element tuple of the value
NoValue == <<>>

Some(v) == <<v>>

ValueOf(opt) == opt[1]

NoFile == <<>>           \* no baked-data file on disk

----------------------------------------------------------------------------
(* Helpers *)

Min(a, b) == IF a < b THEN a ELSE b

Max(a, b) == IF a > b THEN a ELSE b

RECURSIVE SumSeq(_)
SumSeq(s) == IF s = <<>> THEN 0 ELSE Head(s) + SumSeq(Tail(s))

\* std::ceil(a / b) for b > 0, then truncation to int
CeilDiv(a, b) == IF a <= 0 THEN -((-a) \div b) ELSE (a + b - 1) \div b

----------------------------------------------------------------------------
(* Bake point generation.  Lengths are integers in units of                *)
(* Settings::PATH_TRACING_EPSILON, and the grid spacing is 50 such units.  *)

bakePointsInterval == 50

PATH_TRACING_EPSILON == 1

\* cluster AABBs, the min vertex at the origin
ThinAABB == [minVert |-> <<0, 0, 0>>, maxVert |-> <<40, 40, 0>>]    \* thinner than epsilon on z

CellAABB == [minVert |-> <<0, 0, 0>>, maxVert |-> <<40, 40, 40>>]   \* one grid cell

WideAABB == [minVert |-> <<0, 0, 0>>, maxVert |-> <<90, 40, 40>>]   \* two cells along x

\* the levels of the model: per cluster 0, 1, ... its AABB, or NoValue for an index
\* that GetClustersSet does not hold
Levels ==
    { <<Some(CellAABB)>>,
      <<Some(WideAABB), Some(CellAABB)>>,
      <<Some(CellAABB), NoValue, Some(WideAABB)>>,
      <<Some(ThinAABB), Some(CellAABB), Some(CellAABB)>> }

\* LightBaker::GenerateClusterBakePoints
GenerateClusterBakePoints(clusterIndex) ==
    LET aabb == ValueOf(bspClusterAABB[clusterIndex + 1])
        minV == [a \in 1..3 |-> aabb.minVert[a] + PATH_TRACING_EPSILON]
        maxV == [a \in 1..3 |-> aabb.maxVert[a] - PATH_TRACING_EPSILON]
        num == [a \in 1..3 |-> CeilDiv(maxV[a] - minV[a], bakePointsInterval)]
        xN == Max(num[1], 0)
        yN == Max(num[2], 0)
        zN == Max(num[3], 0)
        total == xN * yN * zN
        Pt(k) == LET xi == k \div (yN * zN)
                     yi == (k \div zN) % yN
                     zi == k % zN
                 IN <<Min(minV[1] + bakePointsInterval * xi, maxV[1]),
                      Min(minV[2] + bakePointsInterval * yi, maxV[2]),
                      Min(minV[3] + bakePointsInterval * zi, maxV[3])>>
    IN [k \in 1..total |-> Pt(k - 1)]

\* BSPTree::GetClustersSet
GetClustersSet == {c \in 0..(Len(bspClusterAABB) - 1) : bspClusterAABB[c + 1] # NoValue}

MaxOfSet(S) == CHOOSE m \in S : \A x \in S : x <= m

\* LightBaker::GenerateClustersBakePoints: the bake points per cluster index
GenerateClustersBakePoints(mode, position) ==
    IF mode = "AllClusters"
    THEN IF GetClustersSet = {} THEN <<>>
         ELSE [i \in 1..(MaxOfSet(GetClustersSet) + 1) |->
                  IF (i - 1) \in GetClustersSet
                  THEN GenerateClusterBakePoints(i - 1) ELSE <<>>]
    ELSE [i \in 1..(ValueOf(position) + 1) |->
             IF i - 1 = ValueOf(position)
             THEN GenerateClusterBakePoints(ValueOf(position)) ELSE <<>>]

\* the bakingCluster GenerateClustersBakePoints stores
GenerateBakingCluster(mode, position) ==
    IF mode = "AllClusters" THEN NoValue ELSE position

\* FirstProbeIndices with the running total never advanced
FirstProbeIndicesNoSum(bakePoints) ==
    [i \in 1..Len(bakePoints) |-> 0]

\* the prefix-sum loop of LightBaker::PreBake (clusterFirstProbeIndices)
FirstProbeIndices(bakePoints) ==
    [i \in 1..Len(bakePoints) |->
        SumSeq([j \in 1..(i - 1) |-> Len(bakePoints[j])])]

\* the mutated total: one probe per cluster
TotalProbesPerCluster(bakePoints) == Len(bakePoints)

\* totalProbes of LightBaker::PreBake
TotalProbes(bakePoints) ==
    SumSeq([j \in 1..Len(bakePoints) |-> Len(bakePoints[j])])

----------------------------------------------------------------------------
(* Probes.  A spherical-harmonic coefficient is an XMFLOAT4 <<x, y, z, w>>, *)
(* its channels fixed-point numbers in units of 10^-10.                     *)

ShSize == 9

ZeroCoeff == <<0, 0, 0, 0>>

ZeroSh == [i \in 1..ShSize |-> ZeroCoeff]

\* results of the Monte-Carlo integration of a probe: the random draws are taken
\* as fixed per bake point, so that probes differ without multiplying the states
ShSamples ==
    << [i \in 1..ShSize |-> <<123456789 * i, -7654321 * i, 4 + i, 0>>],
       [i \in 1..ShSize |-> <<-2000000000, 33333333 * i, 15 * i, 0>>] >>

\* the scaled sum of the PROBE_SAMPLES_NUM projections for the probe at `index`
IntegrateProbe(index) == ShSamples[(index % Len(ShSamples)) + 1]

\* a value-initialised DiffuseProbe (probes.resize)
EmptyProbe == [radianceSh |-> ZeroSh]

EmptyBakingData(mode) ==
    [bakingMode |-> mode, bakingCluster |-> NoValue,
     clusterFirstProbeIndices |-> <<>>, probes |-> <<>>]

\* LightBaker::GetTotalProbesNum
GetTotalProbesNum == Len(transferableData.probes)

\* the mutated counter: a probe counts from its first write on
GetBakedProbesNumStarted == Cardinality({i \in DOMAIN probeStatus : probeStatus[i] # "none"})

\* LightBaker::GetBakedProbesNum
GetBakedProbesNum == probesBaked

----------------------------------------------------------------------------
(* Initial state: LightBaker::Init on a loaded level *)

BakerInitOn(level) ==
    /\ bspClusterAABB = level
    /\ transferableData = EmptyBakingData("CurrentPositionCluster")
    /\ clusterBakePoints = <<>>
    /\ currentBakeCluster = 0
    /\ probesBaked = 0
    /\ isContainCompleteBakingResult = FALSE
    /\ bakePosition = NoValue
    /\ bakeFlags = [SaveToFileAfterBake |-> FALSE]
    /\ bakerPhase = "idle"
    /\ bakesStarted = 0
    /\ wpc = [w \in Workers |-> "idle"]
    /\ wCluster = [w \in Workers |-> 0]
    /\ wPoint = [w \in Workers |-> 0]
    /\ wComplete = [w \in Workers |-> FALSE]
    /\ clusterClaims = <<>>
    /\ probeWriters = <<>>
    /\ probeStatus = <<>>
    /\ rendererBakingResult = NoValue
    /\ bakingDataFile = NoFile
    /\ savedBakingData = NoValue

\* the frame-graph compiler as it stays under the specifications of the other subsystems
CompileParked ==
    /\ source = [passes |-> <<>>, passesParametersSources |-> <<>>]
    /\ compiled = <<>>

\* the hot reload as it stays under the specifications of the other subsystems
BuildParked ==
    /\ outFrameGraph = <<>>
    /\ sourceWatchHandle = "INVALID_HANDLE_VALUE"
    /\ diskSource = [parsable |-> TRUE,
                     source |-> [passes |-> <<>>, passesParametersSources |-> <<>>]]
    /\ framesInFlight = 0
    /\ buildPc = "idle"
    /\ buildReturn = "none"
    /\ graphBeforeCall = <<>>
    /\ flushedFrames = <<>>
    /\ buildFailure = "none"

\* the preprocessor as it stays under the specifications of the other subsystems
PreprocessParked ==
    /\ currentFile = <<>>
    /\ fileIncludes = <<>>
    /\ preprocessed = <<>>

\* the falloff function as it stays under the specifications of the other subsystems
FalloffParked ==
    /\ falloffArgs = [dist |-> 0, dist0 |-> 0, distMax |-> 0]
    /\ falloffResult = <<>>

\* the buffer allocator as it stays under the specifications of the other subsystems
BufferParked ==
    /\ allocations = <<>>
    /\ m_handlers = <<>>
    /\ assertsEnabled = TRUE
    /\ bufferCall = [op |-> "none", arg |-> 0, ret |-> 0, status |-> "none", before |-> <<>>]
    /\ handlerOffsets = <<>>

\* the object values as they stay under the specifications of the other subsystems
ObjectParked ==
    /\ objectType = "StaticObject"
    /\ objects = <<>>
    /\ acquiredResources = 0
    /\ releases = <<>>

\* the frames as they stay under the specifications of the other subsystems
FrameParked ==
    /\ frames = <<>>
    /\ dsvHeap = {}
    /\ rtvHeap = {}
    /\ heapDeletes = {}

\* the path tracer as it stays under the specifications of the other subsystems
PathParked ==
    /\ pathPc = "returned"
    /\ rayBounce = 0
    /\ pathFlags = [SaveRayPath |-> FALSE, SaveLightSampling |-> FALSE]
    /\ pathSegments = 0
    /\ lightSamples = 0
    /\ pathHits = <<>>
    /\ rouletteDraws = 0

BakerInit == \E level \in Levels : BakerInitOn(level)

\* the baker as it stays under the specifications of the other subsystems
BakerParked == BakerInitOn(<<Some(CellAABB)>>)

----------------------------------------------------------------------------
(* The baked-data file.  The text is a sequence of lines, a line a tuple    *)
(* of tokens.  Integers are written in decimal and read back by stoi; a     *)
(* float is written with std::fixed << std::setprecision(9) and read back   *)
(* by stof: its token is the sign and the digits of |value| * 10^9.         *)

\* enum class LightBakingMode, in declaration order
LightBakingMode == <<"AllClusters", "CurrentPositionCluster">>

LightBakingMode_Str == <<"AllCluster", "CurrentPositionCluster">>

\* LightBaker::BakingModeToStr
BakingModeToStr(mode) ==
    LightBakingMode_Str[CHOOSE i \in 1..Len(LightBakingMode) : LightBakingMode[i] = mode]

INVALID_INDEX == -1

\* LightBaker::StrToBakingMode
StrToBakingMode(str) ==
    LET found == {i \in 1..Len(LightBakingMode_Str) : LightBakingMode_Str[i] = str}
    IN IF found = {} THEN INVALID_INDEX
       ELSE LightBakingMode[CHOOSE i \in found : \A j \in found : i <= j]

CoeffUnitDigits == 10     \* a coefficient channel is an integer multiple of 10^-10

FilePrecision == 9        \* std::setprecision(9)

RECURSIVE Pow10(_)
Pow10(n) == IF n = 0 THEN 1 ELSE 10 * Pow10(n - 1)

Abs(x) == IF x < 0 THEN -x ELSE x

\* FormatFixed without the setprecision call: the stream's default precision, 6
FormatFixedDefaultPrecision(v, precision) ==
    LET drop == Pow10(CoeffUnitDigits - 6)
    IN [neg |-> v < 0, digits |-> (Abs(v) + drop \div 2) \div drop, precision |-> 6]

\* operator<<(float) under std::fixed with `precision` decimals, rounded to nearest
FormatFixed(v, precision) ==
    LET drop == Pow10(CoeffUnitDigits - precision)
    IN [neg |-> v < 0, digits |-> (Abs(v) + drop \div 2) \div drop, precision |-> precision]

\* stof of a decimal token
ParseFloat(tok) ==
    LET value == tok.digits * Pow10(CoeffUnitDigits - tok.precision)
    IN IF tok.neg THEN -value ELSE value

\* the line written for one coefficient: x, y, z
CoeffLine(coef) ==
    <<FormatFixed(coef[1], FilePrecision), FormatFixed(coef[2], FilePrecision),
      FormatFixed(coef[3], FilePrecision)>>

\* the lines of one probe: "Probe i" and its coefficients
ProbeLines(i, probe) ==
    <<<<"Probe", i>>>> \o [k \in 1..Len(probe.radianceSh) |-> CoeffLine(probe.radianceSh[k])]

RECURSIVE Flatten(_)
Flatten(ss) == IF ss = <<>> THEN <<>> ELSE Head(ss) \o Flatten(Tail(ss))

\* LightBaker::SaveBakingResultsToFile: the text written for bakingResult
SaveBakingResultsToFile(bakingResult) ==
    <<<<"BakingMode", BakingModeToStr(bakingResult.bakingMode)>>>>
    \o (IF bakingResult.bakingMode = "CurrentPositionCluster"
        THEN <<<<"BakingCluster", ValueOf(bakingResult.bakingCluster)>>>>
        ELSE <<>>)
    \o (IF bakingResult.bakingMode = "AllClusters"
        THEN <<<<"ClusterFirstProbeIndices", Len(bakingResult.clusterFirstProbeIndices)>>>>
             \o [i \in 1..Len(bakingResult.clusterFirstProbeIndices) |->
                    <<bakingResult.clusterFirstProbeIndices[i]>>]
        ELSE <<>>)
    \o <<<<"ProbeData", Len(bakingResult.probes)>>>>
    \o Flatten([i \in 1..Len(bakingResult.probes) |-> ProbeLines(i - 1, bakingResult.probes[i])])

\* parser["Float3"]: an XMFLOAT4 with w = 0
ParseFloat3(line) == <<ParseFloat(line[1]), ParseFloat(line[2]), ParseFloat(line[3]), 0>>

\* parser["Probe"]: the coefficient lines after "Probe i", at lines first+1 .. first+ShSize
ParseProbe(text, first) ==
    [radianceSh |-> [k \in 1..ShSize |-> ParseFloat3(text[first + k])]]

\* parser["ProbeSection"]: "ProbeData M" at line `first`, then M probes
ParseProbeSection(text, first) ==
    [i \in 1..text[first][2] |-> ParseProbe(text, first + 1 + (i - 1) * (ShSize + 1))]

\* parser["ClusterFirstProbeIndices"]: "ClusterFirstProbeIndices N" at line 2, then N integers
ParseClusterFirstProbeIndices(text) ==
    [i \in 1..text[2][2] |-> text[2 + i][1]]

\* parser["LightBakingData"] over the sections, read in the order of the file format
LoadBakingResultsFromFile(text) ==
    LET mode == StrToBakingMode(text[1][2])
        clusterLines == IF text[2][1] = "ClusterFirstProbeIndices" THEN 1 + text[2][2] ELSE 1
        probes == ParseProbeSection(text, 2 + clusterLines)
    IN [bakingMode |-> mode,
        bakingCluster |-> IF mode = "CurrentPositionCluster" THEN Some(text[2][2]) ELSE NoValue,
        clusterFirstProbeIndices |->
            IF mode = "AllClusters" THEN ParseClusterFirstProbeIndices(text) ELSE <<>>,
        probes |-> probes]

----------------------------------------------------------------------------
(* Light baker: operations of the main thread *)

\* LightBaker::SetBakingMode
SetBakingMode(genMode) ==
    /\ bakerPhase = "idle"
    /\ transferableData' = [transferableData EXCEPT !.bakingMode = genMode]
    /\ UNCHANGED <<bspClusterAABB, clusterBakePoints, currentBakeCluster, probesBaked,
                   isContainCompleteBakingResult, bakePosition, bakeFlags, bakerPhase,
                   bakesStarted, wpc, wCluster, wPoint, wComplete, clusterClaims,
                   probeWriters, probeStatus, rendererBakingResult, bakingDataFile,
                   savedBakingData>>
    /\ UNCHANGED nonBakerVars

\* LightBaker::SetBakePosition, the position given by the cluster that holds it
SetBakePosition(position) ==
    /\ bakerPhase = "idle"
    /\ bakePosition = NoValue
    /\ bakePosition' = Some(position)
    /\ UNCHANGED <<bspClusterAABB, transferableData, clusterBakePoints, currentBakeCluster,
                   probesBaked, isContainCompleteBakingResult, bakeFlags, bakerPhase,
                   bakesStarted, wpc, wCluster, wPoint, wComplete, clusterClaims,
                   probeWriters, probeStatus, rendererBakingResult, bakingDataFile,
                   savedBakingData>>
    /\ UNCHANGED nonBakerVars

\* LightBaker::SetBakeFlag(BakeFlags::SaveToFileAfterBake, value)
SetBakeFlag(value) ==
    /\ bakerPhase = "idle"
    /\ bakeFlags' = [bakeFlags EXCEPT !.SaveToFileAfterBake = value]
    /\ UNCHANGED <<bspClusterAABB, transferableData, clusterBakePoints, currentBakeCluster,
                   probesBaked, isContainCompleteBakingResult, bakePosition, bakerPhase,
                   bakesStarted, wpc, wCluster, wPoint, wComplete, clusterClaims,
                   probeWriters, probeStatus, rendererBakingResult, bakingDataFile,
                   savedBakingData>>
    /\ UNCHANGED nonBakerVars

\* the DX_ASSERTs at the head of LightBaker::PreBake
PreBakeAsserts ==
    /\ transferableData.clusterFirstProbeIndices = <<>>
    /\ clusterBakePoints = <<>>
    /\ probesBaked = 0
    /\ transferableData.probes = <<>>

\* LightBaker::PreBake, followed by the start of BakeJob on `jobs` workers of the pool
PreBake(jobs) ==
    /\ bakerPhase = "idle"
    /\ bakesStarted < MaxBakes
    /\ transferableData.bakingMode = "CurrentPositionCluster" => bakePosition # NoValue
    /\ bakesStarted' = bakesStarted + 1
    /\ IF ~PreBakeAsserts
       THEN /\ bakerPhase' = "assertFailed"
            /\ UNCHANGED <<bspClusterAABB, transferableData, clusterBakePoints,
                           currentBakeCluster, probesBaked, isContainCompleteBakingResult,
                           bakePosition, bakeFlags, wpc, wCluster, wPoint, wComplete,
                           clusterClaims, probeWriters, probeStatus, rendererBakingResult,
                           bakingDataFile, savedBakingData>>
       ELSE LET mode == transferableData.bakingMode
                bakePoints == GenerateClustersBakePoints(mode, bakePosition)
                totalProbes == TotalProbes(bakePoints)
            IN /\ currentBakeCluster' = 0
               /\ clusterBakePoints' = bakePoints
               /\ transferableData' =
                      [bakingMode |-> mode,
                       bakingCluster |-> GenerateBakingCluster(mode, bakePosition),
                       clusterFirstProbeIndices |-> FirstProbeIndices(bakePoints),
                       probes |-> [i \in 1..totalProbes |-> EmptyProbe]]
               /\ bakePosition' = IF mode = "CurrentPositionCluster" THEN NoValue
                                  ELSE bakePosition
               /\ bakerPhase' = "baking"
               /\ wpc' = [w \in Workers |-> IF w <= jobs THEN "claim" ELSE "idle"]
               /\ clusterClaims' = [i \in 1..Len(bakePoints) |-> 0]
               /\ probeWriters' = [i \in 1..totalProbes |-> {}]
               /\ probeStatus' = [i \in 1..totalProbes |-> "none"]
               /\ UNCHANGED <<bspClusterAABB, probesBaked, isContainCompleteBakingResult,
                              bakeFlags, wCluster, wPoint, wComplete, rendererBakingResult,
                              bakingDataFile, savedBakingData>>
    /\ UNCHANGED nonBakerVars

\* the mutated transfer: the snapshot is copied, only bakingCluster is reset
MovedFromBakingDataCopied(data) == [data EXCEPT !.bakingCluster = NoValue]

\* the BakingData left in transferableData by std::move and bakingCluster.reset()
MovedFromBakingData(data) ==
    [bakingMode |-> data.bakingMode, bakingCluster |-> NoValue,
     clusterFirstProbeIndices |-> <<>>, probes |-> <<>>]

\* every BakeJob started by PreBake has returned
AllWorkersReturned == \A w \in Workers : wpc[w] \in {"idle", "done"}

\* LightBaker::PostBake (with TransferBakingResult), run once the jobs are joined
\* or the load job has finished
PostBake ==
    /\ \/ bakerPhase = "baking" /\ AllWorkersReturned
       \/ bakerPhase = "loaded"
    /\ IF transferableData.probes = <<>>
       THEN /\ bakerPhase' = "assertFailed"
            /\ UNCHANGED <<transferableData, clusterBakePoints, probesBaked,
                           isContainCompleteBakingResult, bakeFlags, wpc,
                           rendererBakingResult, bakingDataFile, savedBakingData,
                           clusterClaims, probeWriters, probeStatus>>
       ELSE LET bakingResult == transferableData
            IN /\ isContainCompleteBakingResult' = FALSE
               /\ transferableData' = MovedFromBakingData(transferableData)
               /\ IF bakeFlags.SaveToFileAfterBake
                  THEN /\ bakingDataFile' = SaveBakingResultsToFile(bakingResult)
                       /\ savedBakingData' = Some(bakingResult)
                  ELSE UNCHANGED <<bakingDataFile, savedBakingData>>
               /\ rendererBakingResult' = Some(bakingResult)
               /\ probesBaked' = 0
               /\ clusterBakePoints' = <<>>
               /\ bakeFlags' = [bakeFlags EXCEPT !.SaveToFileAfterBake = FALSE]
               /\ bakerPhase' = "idle"
               /\ wpc' = [w \in Workers |-> "idle"]
               /\ clusterClaims' = <<>>
               /\ probeWriters' = <<>>
               /\ probeStatus' = <<>>
    /\ UNCHANGED <<bspClusterAABB, currentBakeCluster, bakePosition, bakesStarted,
                   wCluster, wPoint, wComplete>>
    /\ UNCHANGED nonBakerVars

\* LightBaker::LoadBakingResultsFromFileJob
LoadBakingResultsFromFileJob ==
    /\ bakerPhase = "idle"
    /\ bakingDataFile # NoFile
    /\ transferableData' = LoadBakingResultsFromFile(bakingDataFile)
    /\ isContainCompleteBakingResult' = TRUE
    /\ bakerPhase' = "loaded"
    /\ UNCHANGED <<bspClusterAABB, clusterBakePoints, currentBakeCluster, probesBaked,
                   bakePosition, bakeFlags, bakesStarted, wpc, wCluster, wPoint, wComplete,
                   clusterClaims, probeWriters, probeStatus, rendererBakingResult,
                   bakingDataFile, savedBakingData>>
    /\ UNCHANGED nonBakerVars

----------------------------------------------------------------------------
(* Light baker: the steps of one worker inside LightBaker::BakeJob *)

\* index into transferableData.probes (1-based) of the probe worker w is on
ProbeIndexOf(w) ==
    transferableData.clusterFirstProbeIndices[wCluster[w] + 1] + wPoint[w] + 1

\* currentBakeCluster.fetch_add(1) and the test against clusterBakePoints.size()
ClaimCluster(w) ==
    /\ bakerPhase = "baking"
    /\ wpc[w] = "claim"
    /\ currentBakeCluster' = currentBakeCluster + 1
    /\ IF currentBakeCluster >= Len(clusterBakePoints)
       THEN /\ wpc' = [wpc EXCEPT ![w] = "eval"]
            /\ UNCHANGED <<wCluster, wPoint, clusterClaims>>
       ELSE /\ wCluster' = [wCluster EXCEPT ![w] = currentBakeCluster]
            /\ wPoint' = [wPoint EXCEPT ![w] = 0]
            /\ clusterClaims' = [clusterClaims EXCEPT ![currentBakeCluster + 1] = @ + 1]
            /\ wpc' = [wpc EXCEPT ![w] =
                          IF Len(clusterBakePoints[currentBakeCluster + 1]) = 0
                          THEN "claim" ELSE "zero"]
    /\ UNCHANGED <<bspClusterAABB, transferableData, clusterBakePoints, probesBaked,
                   isContainCompleteBakingResult, bakePosition, bakeFlags, bakerPhase,
                   bakesStarted, wComplete, probeWriters, probeStatus,
                   rendererBakingResult, bakingDataFile, savedBakingData>>
    /\ UNCHANGED nonBakerVars

\* ZeroMemory of the probe's radianceSh: the first write to the probe
ZeroProbe(w) ==
    /\ bakerPhase = "baking"
    /\ wpc[w] = "zero"
    /\ transferableData' = [transferableData EXCEPT !.probes[ProbeIndexOf(w)].radianceSh = ZeroSh]
    /\ probeWriters' = [probeWriters EXCEPT ![ProbeIndexOf(w)] = @ \cup {w}]
    /\ probeStatus' = [probeStatus EXCEPT ![ProbeIndexOf(w)] = "partial"]
    /\ wpc' = [wpc EXCEPT ![w] = "trace"]
    /\ UNCHANGED <<bspClusterAABB, clusterBakePoints, currentBakeCluster, probesBaked,
                   isContainCompleteBakingResult, bakePosition, bakeFlags, bakerPhase,
                   bakesStarted, wCluster, wPoint, wComplete, clusterClaims,
                   rendererBakingResult, bakingDataFile, savedBakingData>>
    /\ UNCHANGED nonBakerVars

\* the PROBE_SAMPLES_NUM path traces, their accumulation and the Monte-Carlo scaling
TraceProbe(w) ==
    /\ bakerPhase = "baking"
    /\ wpc[w] = "trace"
    /\ transferableData' = [transferableData EXCEPT
           !.probes[ProbeIndexOf(w)].radianceSh = IntegrateProbe(ProbeIndexOf(w))]
    /\ probeWriters' = [probeWriters EXCEPT ![ProbeIndexOf(w)] = @ \cup {w}]
    /\ probeStatus' = [probeStatus EXCEPT ![ProbeIndexOf(w)] = "final"]
    /\ wpc' = [wpc EXCEPT ![w] = "count"]
    /\ UNCHANGED <<bspClusterAABB, clusterBakePoints, currentBakeCluster, probesBaked,
                   isContainCompleteBakingResult, bakePosition, bakeFlags, bakerPhase,
                   bakesStarted, wCluster, wPoint, wComplete, clusterClaims,
                   rendererBakingResult, bakingDataFile, savedBakingData>>
    /\ UNCHANGED nonBakerVars

\* the mutated step: the bake-point loop goes on without the fetch_add
CountProbeNoFetchAdd(w) ==
    /\ bakerPhase = "baking"
    /\ wpc[w] = "count"
    /\ wPoint' = [wPoint EXCEPT ![w] = @ + 1]
    /\ wpc' = [wpc EXCEPT ![w] =
                  IF wPoint[w] + 1 < Len(clusterBakePoints[wCluster[w] + 1])
                  THEN "zero" ELSE "claim"]
    /\ UNCHANGED <<bspClusterAABB, transferableData, clusterBakePoints, currentBakeCluster,
                   probesBaked, isContainCompleteBakingResult, bakePosition, bakeFlags,
                   bakerPhase, bakesStarted, wCluster, wComplete, clusterClaims,
                   probeWriters, probeStatus, rendererBakingResult, bakingDataFile,
                   savedBakingData>>
    /\ UNCHANGED nonBakerVars

\* probesBaked.fetch_add(1) and the step of the bake-point loop
CountProbe(w) ==
    /\ bakerPhase = "baking"
    /\ wpc[w] = "count"
    /\ probesBaked' = probesBaked + 1
    /\ wPoint' = [wPoint EXCEPT ![w] = @ + 1]
    /\ wpc' = [wpc EXCEPT ![w] =
                  IF wPoint[w] + 1 < Len(clusterBakePoints[wCluster[w] + 1])
                  THEN "zero" ELSE "claim"]
    /\ UNCHANGED <<bspClusterAABB, transferableData, clusterBakePoints, currentBakeCluster,
                   isContainCompleteBakingResult, bakePosition, bakeFlags, bakerPhase,
                   bakesStarted, wCluster, wComplete, clusterClaims, probeWriters,
                   probeStatus, rendererBakingResult, bakingDataFile, savedBakingData>>
    /\ UNCHANGED nonBakerVars

\* line 575, right-hand side: GetTotalProbesNum() == GetBakedProbesNum()
EvalComplete(w) ==
    /\ bakerPhase = "baking"
    /\ wpc[w] = "eval"
    /\ wComplete' = [wComplete EXCEPT ![w] = (GetTotalProbesNum = GetBakedProbesNum)]
    /\ wpc' = [wpc EXCEPT ![w] = "store"]
    /\ UNCHANGED <<bspClusterAABB, transferableData, clusterBakePoints, currentBakeCluster,
                   probesBaked, isContainCompleteBakingResult, bakePosition, bakeFlags,
                   bakerPhase, bakesStarted, wCluster, wPoint, clusterClaims, probeWriters,
                   probeStatus, rendererBakingResult, bakingDataFile, savedBakingData>>
    /\ UNCHANGED nonBakerVars

\* line 575, the store to isContainCompleteBakingResult, and the return of BakeJob
\* (the locals of the job end with it)
StoreComplete(w) ==
    /\ bakerPhase = "baking"
    /\ wpc[w] = "store"
    /\ isContainCompleteBakingResult' = wComplete[w]
    /\ wpc' = [wpc EXCEPT ![w] = "done"]
    /\ wCluster' = [wCluster EXCEPT ![w] = 0]
    /\ wPoint' = [wPoint EXCEPT ![w] = 0]
    /\ wComplete' = [wComplete EXCEPT ![w] = FALSE]
    /\ UNCHANGED <<bspClusterAABB, transferableData, clusterBakePoints, currentBakeCluster,
                   probesBaked, bakePosition, bakeFlags, bakerPhase, bakesStarted,
                   clusterClaims, probeWriters, probeStatus,
                   rendererBakingResult, bakingDataFile, savedBakingData>>
    /\ UNCHANGED nonBakerVars

\* LightBaker::BakeJob, one step of worker w
BakeJob(w) ==
    \/ ClaimCluster(w)
    \/ ZeroProbe(w)
    \/ TraceProbe(w)
    \/ CountProbe(w)
    \/ EvalComplete(w)
    \/ StoreComplete(w)

BakeNext ==
    \/ \E m \in {"AllClusters", "CurrentPositionCluster"} : SetBakingMode(m)
    \/ \E c \in GetClustersSet : SetBakePosition(c)
    \/ \E v \in BOOLEAN : SetBakeFlag(v)
    \/ \E jobs \in Workers : PreBake(jobs)
    \/ \E w \in Workers : BakeJob(w)
    \/ PostBake
    \/ LoadBakingResultsFromFileJob

BakeInit ==
    /\ BakerInit
    /\ CompileParked
    /\ BuildParked
    /\ PreprocessParked
    /\ FalloffParked
    /\ BufferParked
    /\ ObjectParked
    /\ FrameParked
    /\ PathParked

SpecBake == BakeInit /\ [][BakeNext]_vars

----------------------------------------------------------------------------
(* Frame-graph sources.  A resource declaration (Parsing::Resource_t) is a   *)
(* record of its name, kind, register, content (the const-buffer fields),    *)
(* scope and bind frequency; a PassParametersSource has a name, an input     *)
(* type, resources and the root parameters of its root signature.            *)

\* enum class Parsing::PassInputType, in declaration order
PassInputType == <<"UI", "Static", "Dynamic", "Particles">>

\* the input types the passes of the model use
ModelInputTypes == {"UI", "Static"}

ViewFields == <<"float4x4 view">>

ProjFields == <<"float4x4 proj">>

Resource_ConstBuff(name, registerId, content, scope, bindFrequency) ==
    [name |-> name, kind |-> "ConstBuff", registerId |-> registerId, content |-> content,
     scope |-> scope, bindFrequency |-> bindFrequency]

\* the declarations of a resource named Cam: every scope and bind frequency, and for
\* the Global ones a second declaration with one field renamed
CamDecls ==
    { Resource_ConstBuff("Cam", 0, ViewFields, "Global", "PerPass"),
      Resource_ConstBuff("Cam", 0, ProjFields, "Global", "PerPass"),
      Resource_ConstBuff("Cam", 0, ViewFields, "Global", "PerObject"),
      Resource_ConstBuff("Cam", 0, ProjFields, "Global", "PerObject"),
      Resource_ConstBuff("Cam", 0, ViewFields, "Local", "PerPass"),
      Resource_ConstBuff("Cam", 0, ViewFields, "Local", "PerObject") }

ObjDecl == Resource_ConstBuff("Obj", 1, <<"float4 pos", "float4 scale">>, "Local", "PerObject")

\* the resource lists a pass file of the model may declare
PassResourceLists ==
    {<<>>} \cup {<<d>> : d \in CamDecls}
    \cup {<<d, ObjDecl>> : d \in {c \in CamDecls : c.scope = "Global" /\ c.content = ViewFields}}
    \cup {<<Resource_ConstBuff("Cam", 0, ViewFields, "Global", "PerPass"),
            Resource_ConstBuff("Cam", 1, ViewFields, "Local", "PerPass")>>}

RootParam_ConstBuffView(registerId, num) ==
    [type |-> "ConstBuffView", registerId |-> registerId, num |-> num]

\* the root signatures a pass may give its resources: one inline CBV per resource, in
\* declaration order or in reverse
RootSignaturesFor(resources) ==
    LET inOrder == [i \in 1..Len(resources) |->
                       RootParam_ConstBuffView(resources[i].registerId, 1)]
        reversed == [i \in 1..Len(resources) |-> inOrder[Len(resources) + 1 - i]]
    IN {inOrder, reversed}

\* what a pass file of the model may declare: its input type, resources, root signature
PassContents ==
    UNION { { [input |-> input, resources |-> resources, rootSignature |-> params] :
                  input \in ModelInputTypes, params \in RootSignaturesFor(resources) } :
            resources \in PassResourceLists }

\* the PassParametersSource parsed from the pass file `name` (ParsePassFiles names a
\* pass after its file)
PassParametersSource(name, contents) ==
    [name |-> name, input |-> contents.input, resources |-> contents.resources,
     rootSignature |-> contents.rootSignature]

MaxPasses == 2

PassFileNames == <<"ui", "static", "debug", "post">>

PassNames == {PassFileNames[i] : i \in 1..MaxPasses}

\* the pass lists a frame-graph file may give: pass names, each at most once
PassLists ==
    UNION { {list \in [1..k -> PassNames] : \A i, j \in 1..k : list[i] = list[j] => i = j} :
            k \in 1..MaxPasses }

----------------------------------------------------------------------------
(* FrameGraphBuilder::ValidateResources (debug build: a failed assert stops  *)
(* the program, which the model records as ok = FALSE).                      *)

InputTypes == {PassInputType[i] : i \in DOMAIN PassInputType}

GetResourceName(res) == res.name

GetResourceScope(res) == res.scope

GetResourceBindFrequency(res) == res.bindFrequency

\* std::find_if by name: the position of the first resource with that name, 0 for end()
FindResourceByName(resources, name) ==
    LET found == {i \in DOMAIN resources : GetResourceName(resources[i]) = name}
    IN IF found = {} THEN 0 ELSE CHOOSE i \in found : \A j \in found : i <= j

\* Parsing::IsEqual: same kind, register and field layout
IsEqual(resA, resB) ==
    /\ resA.kind = resB.kind
    /\ resA.registerId = resB.registerId
    /\ resA.content = resB.content

ValidationStart ==
    [perPassGlobalResources |-> <<>>,
     perObjectGlobalResources |-> [t \in InputTypes |-> <<>>],
     ok |-> TRUE]

\* the in-pass collision check (lines 874-884)
InPassCollisionCheck(paramSource, currentRes) ==
    Cardinality({i \in DOMAIN paramSource.resources :
                    GetResourceName(paramSource.resources[i]) = GetResourceName(currentRes)}) = 1

\* the mutated global pass check: a same-named entry is taken to be the same resource
GlobalPassCollisionCheckNameOnly(perPassGlobalResources, currentRes) ==
    LET resIt == FindResourceByName(perPassGlobalResources, GetResourceName(currentRes))
    IN IF GetResourceScope(currentRes) = "Global" /\ GetResourceBindFrequency(currentRes) = "PerPass"
       THEN IF resIt # 0
            THEN [table |-> perPassGlobalResources, ok |-> TRUE]
            ELSE [table |-> Append(perPassGlobalResources, currentRes), ok |-> TRUE]
       ELSE [table |-> perPassGlobalResources, ok |-> resIt = 0]

\* the global pass collision check (lines 886-918): the table after it and whether it held
GlobalPassCollisionCheck(perPassGlobalResources, currentRes) ==
    LET resIt == FindResourceByName(perPassGlobalResources, GetResourceName(currentRes))
    IN IF GetResourceScope(currentRes) = "Global" /\ GetResourceBindFrequency(currentRes) = "PerPass"
       THEN IF resIt # 0
            THEN [table |-> perPassGlobalResources,
                  ok |-> IsEqual(perPassGlobalResources[resIt], currentRes)]
            ELSE [table |-> Append(perPassGlobalResources, currentRes), ok |-> TRUE]
       ELSE [table |-> perPassGlobalResources, ok |-> resIt = 0]

\* the mutated per-object check: one table shared by every input type
GlobalPerObjectCollisionCheckSharedTable(perObjectGlobalResources, input, currentRes) ==
    LET name == GetResourceName(currentRes)
        shared == PassInputType[1]
        objTypeGlobalResource == perObjectGlobalResources[shared]
        resIt == FindResourceByName(objTypeGlobalResource, name)
    IN IF GetResourceBindFrequency(currentRes) = "PerObject"
       THEN IF GetResourceScope(currentRes) = "Global"
            THEN IF resIt # 0
                 THEN [table |-> perObjectGlobalResources,
                       ok |-> IsEqual(objTypeGlobalResource[resIt], currentRes)]
                 ELSE [table |-> [perObjectGlobalResources EXCEPT
                                     ![shared] = Append(objTypeGlobalResource, currentRes)],
                       ok |-> TRUE]
            ELSE [table |-> perObjectGlobalResources, ok |-> resIt = 0]
       ELSE [table |-> perObjectGlobalResources,
             ok |-> \A t \in InputTypes :
                        FindResourceByName(perObjectGlobalResources[t], name) = 0]

\* the global per object collision check (lines 920-977)
GlobalPerObjectCollisionCheck(perObjectGlobalResources, input, currentRes) ==
    LET name == GetResourceName(currentRes)
        objTypeGlobalResource == perObjectGlobalResources[input]
        resIt == FindResourceByName(objTypeGlobalResource, name)
    IN IF GetResourceBindFrequency(currentRes) = "PerObject"
       THEN IF GetResourceScope(currentRes) = "Global"
            THEN IF resIt # 0
                 THEN [table |-> perObjectGlobalResources,
                       ok |-> IsEqual(objTypeGlobalResource[resIt], currentRes)]
                 ELSE [table |-> [perObjectGlobalResources EXCEPT
                                     ![input] = Append(objTypeGlobalResource, currentRes)],
                       ok |-> TRUE]
            ELSE [table |-> perObjectGlobalResources, ok |-> resIt = 0]
       ELSE [table |-> perObjectGlobalResources,
             ok |-> \A t \in InputTypes :
                        FindResourceByName(perObjectGlobalResources[t], name) = 0]

\* the body of the inner loop for one resource of one pass
ValidateResource(st, paramSource, currentRes) ==
    IF ~st.ok THEN st
    ELSE IF ~InPassCollisionCheck(paramSource, currentRes) THEN [st EXCEPT !.ok = FALSE]
    ELSE LET pass == GlobalPassCollisionCheck(st.perPassGlobalResources, currentRes)
         IN IF ~pass.ok THEN [st EXCEPT !.ok = FALSE]
            ELSE LET obj == GlobalPerObjectCollisionCheck(st.perObjectGlobalResources,
                                                          paramSource.input, currentRes)
                 IN [perPassGlobalResources |-> pass.table,
                     perObjectGlobalResources |-> obj.table,
                     ok |-> obj.ok]

RECURSIVE ValidatePassResources(_, _, _)
ValidatePassResources(st, paramSource, i) ==
    IF i > Len(paramSource.resources) THEN st
    ELSE ValidatePassResources(ValidateResource(st, paramSource, paramSource.resources[i]),
                               paramSource, i + 1)

RECURSIVE ValidatePasses(_, _, _)
ValidatePasses(st, passesParametersSources, p) ==
    IF p > Len(passesParametersSources) THEN st
    ELSE ValidatePasses(ValidatePassResources(st, passesParametersSources[p], 1),
                        passesParametersSources, p + 1)

\* TRUE iff no assert of ValidateResources fails on these pass sources
ValidateResources(passesParametersSources) ==
    ValidatePasses(ValidationStart, passesParametersSources, 1).ok

----------------------------------------------------------------------------
(* Root arguments: FrameGraphBuilder::AddRootArg, CreateResourceArguments.   *)
(* Indices stored in the index lists are the code's, counted from 0.         *)

INVALID_BUFFER_HANDLER == -1

\* the names the pass files of the model declare
ResourceNames == <<"Cam", "Obj", "Tex", "Smp">>

\* HASH(name): the interned 32-bit hash of a name, distinct for the names of the model
HASH(name) == CHOOSE h \in DOMAIN ResourceNames : ResourceNames[h] = name

ConstBuffView(bindIndex, hashedName, content, gpuMem) ==
    [type |-> "ConstBuffView", bindIndex |-> bindIndex, hashedName |-> hashedName,
     content |-> content, gpuMem |-> gpuMem]

\* RootArg::FindArg: the 0-based index of the argument with the identity of `arg`
\* (its name and content, for a descriptor table the names and contents of its entities;
\* the bind index is not part of the identity), or INVALID_INDEX
FindArg(args, arg) ==
    LET found == {i \in DOMAIN args : /\ args[i].type = arg.type
                                      /\ \/ arg.type = "DescTable"
                                         \/ args[i].hashedName = arg.hashedName
                                      /\ args[i].content = arg.content}
    IN IF found = {} THEN INVALID_INDEX
       ELSE (CHOOSE i \in found : \A j \in found : i <= j) - 1

\* PassParameters::AddGlobalPerObjectRootArgIndex: deduplicate `arg` into the per-object
\* global template of the input type and record its index
AddGlobalPerObjectRootArgIndex(indices, perObjGlobalResTemplate, arg) ==
    LET resIndex == FindArg(perObjGlobalResTemplate, arg)
    IN IF resIndex = INVALID_INDEX
       THEN [indices |-> Append(indices, Len(perObjGlobalResTemplate)),
             template |-> Append(perObjGlobalResTemplate, arg)]
       ELSE [indices |-> Append(indices, resIndex), template |-> perObjGlobalResTemplate]

EmptyFrameGraph ==
    [passes |-> <<>>,
     passesGlobalRes |-> <<>>,
     objGlobalResTemplate |-> [t \in InputTypes |-> <<>>]]

\* the mutated router: a Global PerPass argument is always stored as a new entry
_AddRootArgNoLookup(INPUT_TYPE, pass, frameGraph, updateFrequency, scope, arg) ==
    IF scope = "Local"
    THEN IF updateFrequency = "PerObject"
         THEN [pass |-> [pass EXCEPT !.perObjectLocalRootArgsTemplate = Append(@, arg)],
               frameGraph |-> frameGraph]
         ELSE [pass |-> [pass EXCEPT !.passLocalRootArgs = Append(@, arg)],
               frameGraph |-> frameGraph]
    ELSE IF updateFrequency = "PerObject"
         THEN LET added == AddGlobalPerObjectRootArgIndex(
                               pass.perObjGlobalRootArgsIndicesTemplate,
                               frameGraph.objGlobalResTemplate[INPUT_TYPE], arg)
              IN [pass |-> [pass EXCEPT !.perObjGlobalRootArgsIndicesTemplate = added.indices],
                  frameGraph |-> [frameGraph EXCEPT
                                     !.objGlobalResTemplate[INPUT_TYPE] = added.template]]
         ELSE [pass |-> [pass EXCEPT !.passGlobalRootArgsIndices =
                                         Append(@, Len(frameGraph.passesGlobalRes))],
               frameGraph |-> [frameGraph EXCEPT !.passesGlobalRes = Append(@, arg)]]

\* _AddRootArg<INPUT_TYPE>: route the argument by scope and bind frequency
_AddRootArg(INPUT_TYPE, pass, frameGraph, updateFrequency, scope, arg) ==
    IF scope = "Local"
    THEN IF updateFrequency = "PerObject"
         THEN [pass |-> [pass EXCEPT !.perObjectLocalRootArgsTemplate = Append(@, arg)],
               frameGraph |-> frameGraph]
         ELSE [pass |-> [pass EXCEPT !.passLocalRootArgs = Append(@, arg)],
               frameGraph |-> frameGraph]
    ELSE IF updateFrequency = "PerObject"
         THEN LET added == AddGlobalPerObjectRootArgIndex(
                               pass.perObjGlobalRootArgsIndicesTemplate,
                               frameGraph.objGlobalResTemplate[INPUT_TYPE], arg)
              IN [pass |-> [pass EXCEPT !.perObjGlobalRootArgsIndicesTemplate = added.indices],
                  frameGraph |-> [frameGraph EXCEPT
                                     !.objGlobalResTemplate[INPUT_TYPE] = added.template]]
         ELSE LET resIndex == FindArg(frameGraph.passesGlobalRes, arg)
              IN IF resIndex = INVALID_INDEX
                 THEN [pass |-> [pass EXCEPT !.passGlobalRootArgsIndices =
                                                 Append(@, Len(frameGraph.passesGlobalRes))],
                       frameGraph |-> [frameGraph EXCEPT !.passesGlobalRes = Append(@, arg)]]
                 ELSE [pass |-> [pass EXCEPT !.passGlobalRootArgsIndices = Append(@, resIndex)],
                       frameGraph |-> frameGraph]

\* AddRootArg: the instance of _AddRootArg for the input type of the pass
AddRootArg(pass, frameGraph, updateFrequency, scope, arg) ==
    _AddRootArg(pass.input, pass, frameGraph, updateFrequency, scope, arg)

\* FindResourceOfTypeAndRegId: the position of the first resource of that kind bound to
\* that register, 0 for nullptr
FindResourceOfTypeAndRegId(passResources, kind, registerId) ==
    LET found == {i \in DOMAIN passResources : /\ passResources[i].kind = kind
                                               /\ passResources[i].registerId = registerId}
    IN IF found = {} THEN 0 ELSE CHOOSE i \in found : \A j \in found : i <= j

\* the descriptor-table entities of a root signature (lines 1548, 1582, 1614)
RootParam_TextView(registerId, num) ==
    [type |-> "TextView", registerId |-> registerId, num |-> num]

RootParam_SamplerView(registerId, num) ==
    [type |-> "SamplerView", registerId |-> registerId, num |-> num]

RootParam_DescTable(entities) == [type |-> "DescTable", entities |-> entities]

\* the resource kind FindResourceOfTypeAndRegId is instantiated with for an entity
EntityResourceKind(entity) ==
    IF entity.type = "ConstBuffView" THEN "ConstBuff"
    ELSE IF entity.type = "TextView" THEN "Texture"
    ELSE "Sampler"

\* the RootArg::DescTableEntity_* emplaced for a resource (lines 1574, 1608, 1640)
DescTableEntity(res) ==
    IF res.kind = "ConstBuff"
    THEN [type |-> "DescTableEntity_ConstBufferView", hashedName |-> HASH(res.name),
          content |-> res.content, gpuMem |-> INVALID_BUFFER_HANDLER,
          bindIndex |-> INVALID_INDEX]
    ELSE IF res.kind = "Texture"
    THEN [type |-> "DescTableEntity_Texture", hashedName |-> HASH(res.name)]
    ELSE [type |-> "DescTableEntity_Sampler", hashedName |-> HASH(res.name)]

\* the state of the loop over a descriptor table: the argument under construction and
\* the std::optional bindFrequency and scope
NewDescTable(paramIndex) ==
    [status |-> "ok", bindFrequency |-> NoValue, scope |-> NoValue,
     arg |-> [type |-> "DescTable", bindIndex |-> paramIndex, content |-> <<>>]]

\* the mutated loop body: only the bind frequency of the entries is compared
AddDescTableResourceNoScopeAssert(table, passResources, kind, registerId) ==
    LET res == FindResourceOfTypeAndRegId(passResources, kind, registerId)
    IN IF table.status # "ok" THEN table
       ELSE IF res = 0 THEN [table EXCEPT !.status = "crash"]
       ELSE IF /\ table.bindFrequency # NoValue
               /\ ValueOf(table.bindFrequency) # passResources[res].bindFrequency
            THEN [table EXCEPT !.status = "assert"]
       ELSE [status |-> "ok",
             bindFrequency |-> IF table.bindFrequency = NoValue
                               THEN Some(passResources[res].bindFrequency)
                               ELSE table.bindFrequency,
             scope |-> IF table.scope = NoValue THEN Some(passResources[res].scope)
                       ELSE table.scope,
             arg |-> [table.arg EXCEPT !.content =
                         Append(@, DescTableEntity(passResources[res]))]]

\* one iteration of the inner loops (1550-1580, 1584-1611, 1616-1643): find the resource,
\* set or assert the bind frequency, set or assert the scope, emplace the entity
AddDescTableResource(table, passResources, kind, registerId) ==
    LET res == FindResourceOfTypeAndRegId(passResources, kind, registerId)
    IN IF table.status # "ok" THEN table
       ELSE IF res = 0 THEN [table EXCEPT !.status = "crash"]
       ELSE IF /\ table.bindFrequency # NoValue
               /\ ValueOf(table.bindFrequency) # passResources[res].bindFrequency
            THEN [table EXCEPT !.status = "assert"]
       ELSE IF /\ table.scope # NoValue
               /\ ValueOf(table.scope) # passResources[res].scope
            THEN [table EXCEPT !.status = "assert"]
       ELSE [status |-> "ok",
             bindFrequency |-> IF table.bindFrequency = NoValue
                               THEN Some(passResources[res].bindFrequency)
                               ELSE table.bindFrequency,
             scope |-> IF table.scope = NoValue THEN Some(passResources[res].scope)
                       ELSE table.scope,
             arg |-> [table.arg EXCEPT !.content =
                         Append(@, DescTableEntity(passResources[res]))]]

\* for (int i = 0; i < descTableParam.num; ++i), from i on
RECURSIVE AddDescTableEntity(_, _, _, _)
AddDescTableEntity(table, passResources, entity, i) ==
    IF i >= entity.num THEN table
    ELSE AddDescTableEntity(
             AddDescTableResource(table, passResources, EntityResourceKind(entity),
                                  entity.registerId + i),
             passResources, entity, i + 1)

\* for (descTableEntity : rootParam.entities), from the e-th entity on
RECURSIVE AddDescTableEntities(_, _, _, _)
AddDescTableEntities(table, passResources, entities, e) ==
    IF e > Len(entities) THEN table
    ELSE AddDescTableEntities(AddDescTableEntity(table, passResources, entities[e], 0),
                              passResources, entities, e + 1)

\* lines 1534-1651: the DescTable argument of a root parameter; dereferencing the
\* std::optional of a table without entries stops the debug build
CreateDescTableArgument(passResources, paramIndex, rootParam) ==
    LET table == AddDescTableEntities(NewDescTable(paramIndex), passResources,
                                      rootParam.entities, 1)
    IN IF table.status = "ok" /\ table.bindFrequency = NoValue
       THEN [table EXCEPT !.status = "crash"]
       ELSE table

\* CreateResourceArguments from root parameter i on (i counted from 1, bindIndex from 0).
\* status "assert": a failed assert; "crash": a null resource pointer is dereferenced
RECURSIVE CreateResourceArgumentsFrom(_, _, _, _)
CreateResourceArgumentsFrom(passSource, frameGraph, pass, i) ==
    IF i > Len(passSource.rootSignature)
    THEN [status |-> "ok", pass |-> pass, frameGraph |-> frameGraph]
    ELSE IF passSource.rootSignature[i].type = "DescTable"
    THEN LET table == CreateDescTableArgument(passSource.resources, i - 1,
                                              passSource.rootSignature[i])
         IN IF table.status # "ok"
            THEN [status |-> table.status, pass |-> pass, frameGraph |-> frameGraph]
            ELSE LET added == AddRootArg(pass, frameGraph, ValueOf(table.bindFrequency),
                                         ValueOf(table.scope), table.arg)
                 IN CreateResourceArgumentsFrom(passSource, added.frameGraph, added.pass, i + 1)
    ELSE LET rootParam == passSource.rootSignature[i]
             res == FindResourceOfTypeAndRegId(passSource.resources, "ConstBuff",
                                               rootParam.registerId)
         IN IF rootParam.num # 1
            THEN [status |-> "assert", pass |-> pass, frameGraph |-> frameGraph]
            ELSE IF res = 0
            THEN [status |-> "crash", pass |-> pass, frameGraph |-> frameGraph]
            ELSE LET r == passSource.resources[res]
                     added == AddRootArg(pass, frameGraph, r.bindFrequency, r.scope,
                                         ConstBuffView(i - 1, HASH(r.name), r.content,
                                                       INVALID_BUFFER_HANDLER))
                 IN CreateResourceArgumentsFrom(passSource, added.frameGraph, added.pass, i + 1)

CreateResourceArguments(passSource, frameGraph, pass) ==
    CreateResourceArgumentsFrom(passSource, frameGraph, pass, 1)

----------------------------------------------------------------------------
(* FrameGraphBuilder::CompilePassParameters and CompileFrameGraph.  The      *)
(* device decides, per pass, whether the shaders compile, the root signature *)
(* is created and the pipeline state is created.                             *)

DeviceOutcomes == [shader : BOOLEAN, rootSig : BOOLEAN, pso : BOOLEAN]

DeviceSucceeds == [shader |-> TRUE, rootSig |-> TRUE, pso |-> TRUE]

\* CompileShaders: ThrowIfFailed(hr) on a failed compilation
CompileShaders(outcome) == IF outcome.shader THEN "ok" ELSE "throw"

\* GenerateRootSignature: the HRESULT of CreateRootSignature is not looked at; on
\* failure the returned ComPtr is null
GenerateRootSignature(outcome) ==
    [status |-> "ok", rootSig |-> IF outcome.rootSig THEN "created" ELSE "null"]

\* GeneratePipelineStateObject: ThrowIfFailed on CreateGraphicsPipelineState
GeneratePipelineStateObject(outcome) ==
    IF outcome.pso THEN [status |-> "ok", pipelineState |-> "created"]
    ELSE [status |-> "throw", pipelineState |-> "null"]

NewPassParameters(passSource) ==
    [name |-> passSource.name, input |-> passSource.input,
     rootSingature |-> "null", pipelineState |-> "null",
     passLocalRootArgs |-> <<>>, perObjectLocalRootArgsTemplate |-> <<>>,
     passGlobalRootArgsIndices |-> <<>>, perObjGlobalRootArgsIndicesTemplate |-> <<>>]

CompilePassParameters(passSource, frameGraph, outcome) ==
    LET passParam == NewPassParameters(passSource)
        failed(status, step) ==
            [status |-> status, step |-> step, pass |-> passParam, frameGraph |-> frameGraph]
    IN IF CompileShaders(outcome) # "ok" THEN failed("throw", "CompileShaders")
       ELSE LET sig == GenerateRootSignature(outcome)
                pso == GeneratePipelineStateObject(outcome)
            IN IF sig.status # "ok" THEN failed(sig.status, "GenerateRootSignature")
               ELSE IF pso.status # "ok" THEN failed(pso.status, "GeneratePipelineStateObject")
               ELSE LET args == CreateResourceArguments(passSource, frameGraph,
                                    [passParam EXCEPT !.rootSingature = sig.rootSig,
                                                      !.pipelineState = pso.pipelineState])
                    IN [status |-> args.status, step |-> "CreateResourceArguments",
                        pass |-> args.pass, frameGraph |-> args.frameGraph]

\* std::find_if by pass name: the position of the pass source, 0 for end()
FindPassParameters(passesParametersSources, passName) ==
    LET found == {i \in DOMAIN passesParametersSources :
                     passesParametersSources[i].name = passName}
    IN IF found = {} THEN 0 ELSE CHOOSE i \in found : \A j \in found : i <= j

\* the mutated switch: every pass is a Pass_UI
PassVariantAlwaysUI(input) == "Pass_UI"

\* the switch of CompileFrameGraph on *passParam.input: the alternative of Pass_t that
\* is emplaced, "undefined" for the default branch
PassVariant(input) ==
    CASE input = "UI" -> "Pass_UI"
      [] input = "Static" -> "Pass_Static"
      [] input = "Dynamic" -> "Pass_Dynamic"
      [] input = "Particles" -> "Pass_Particles"
      [] OTHER -> "undefined"

\* frameGraph.passes.back() after pass.Init(std::move(passParam))
Pass_Init(variant, passParam) == [variant |-> variant, passParameters |-> passParam]

RECURSIVE CompilePasses(_, _, _, _)

\* lines 1131-1165 for the pass parameters `c` compiled for the n-th pass name: the
\* pass is emplaced and initialised, and the loop goes on
EmplacePass(fgSource, device, n, c) ==
    LET variant == PassVariant(c.pass.input)
    IN IF c.status # "ok"
       THEN [status |-> c.status, step |-> c.step, frameGraph |-> c.frameGraph]
       ELSE IF variant = "undefined"
       THEN [status |-> "assert", step |-> "CompileFrameGraph", frameGraph |-> c.frameGraph]
       ELSE CompilePasses(fgSource, device,
                [c.frameGraph EXCEPT !.passes = Append(@, Pass_Init(variant, c.pass))],
                n + 1)

\* the loop of CompileFrameGraph from the n-th pass name on
CompilePasses(fgSource, device, frameGraph, n) ==
    IF n > Len(fgSource.passes)
    THEN [status |-> "ok", step |-> "done", frameGraph |-> frameGraph]
    ELSE LET passName == fgSource.passes[n]
             passParamIt == FindPassParameters(fgSource.passesParametersSources, passName)
         IN IF passParamIt = 0
            THEN [status |-> "assert", step |-> "CompileFrameGraph", frameGraph |-> frameGraph]
            ELSE EmplacePass(fgSource, device, n,
                     CompilePassParameters(fgSource.passesParametersSources[passParamIt],
                                           frameGraph, device[passName]))

\* CompileFrameGraph: status "ok" and the frame graph, or how and where it stopped
CompileFrameGraph(fgSource, device) ==
    IF ~ValidateResources(fgSource.passesParametersSources)
    THEN [status |-> "assert", step |-> "ValidateResources", frameGraph |-> EmptyFrameGraph]
    ELSE CompilePasses(fgSource, device, EmptyFrameGraph, 1)

----------------------------------------------------------------------------
(* The frame-graph compiler applied to every source of the model.            *)

\* the FrameGraphSource made of a pass list and the contents of the pass files
FrameGraphSource(list, contents) ==
    [passes |-> list,
     passesParametersSources |->
         [i \in 1..MaxPasses |-> PassParametersSource(PassFileNames[i], contents[i])]]

CompileInit ==
    /\ \E list \in PassLists, contents \in [1..MaxPasses -> PassContents] :
           source = FrameGraphSource(list, contents)
    /\ compiled = NoValue

\* CompileFrameGraph(source) on a device that creates everything it is asked for
RunCompileFrameGraph ==
    /\ compiled = NoValue
    /\ compiled' = Some(CompileFrameGraph(source, [n \in PassNames |-> DeviceSucceeds]))
    /\ UNCHANGED source
    /\ UNCHANGED nonCompileVars

CompileNext == RunCompileFrameGraph

CompileSpecInit ==
    /\ BakerParked
    /\ BuildParked
    /\ PreprocessParked
    /\ FalloffParked
    /\ BufferParked
    /\ ObjectParked
    /\ FrameParked
    /\ PathParked
    /\ CompileInit

SpecCompile == CompileSpecInit /\ [][CompileNext]_vars

----------------------------------------------------------------------------
(* The frame-graph compiler applied to passes whose root signature has a     *)
(* descriptor table.                                                         *)

EmptyContents == [input |-> "UI", resources |-> <<>>, rootSignature |-> <<>>]

\* pass file contents: the first two files as given, any further file empty
ContentsOf(first, second) ==
    [i \in 1..MaxPasses |-> IF i = 1 THEN first ELSE IF i = 2 THEN second ELSE EmptyContents]

Resource_Texture(name, registerId, scope, bindFrequency) ==
    [name |-> name, kind |-> "Texture", registerId |-> registerId, content |-> <<>>,
     scope |-> scope, bindFrequency |-> bindFrequency]

Resource_Sampler(name, registerId, scope, bindFrequency) ==
    [name |-> name, kind |-> "Sampler", registerId |-> registerId, content |-> <<>>,
     scope |-> scope, bindFrequency |-> bindFrequency]

\* a scope and a bind frequency
Bindings == {"Local", "Global"} \X {"PerPass", "PerObject"}

\* the resources of the pass: two const buffers, a texture and a sampler, bound as `b`
\* says (b[k] is the <<scope, bind frequency>> of the k-th)
DescTableResources(b) ==
    << Resource_ConstBuff("Cam", 0, ViewFields, b[1][1], b[1][2]),
       Resource_ConstBuff("Obj", 1, <<"float4 pos", "float4 scale">>, b[2][1], b[2][2]),
       Resource_Texture("Tex", 0, b[3][1], b[3][2]),
       Resource_Sampler("Smp", 0, b[4][1], b[4][2]) >>

\* the root signatures of the pass: a table over a register range, a table followed by
\* an inline CBV, and an inline CBV followed by a table of three kinds of entities
DescTableRootSignatures ==
    { << RootParam_DescTable(<<RootParam_ConstBuffView(0, 2)>>) >>,
      << RootParam_DescTable(<<RootParam_ConstBuffView(0, 1), RootParam_TextView(0, 1)>>),
         RootParam_ConstBuffView(1, 1) >>,
      << RootParam_ConstBuffView(0, 1),
         RootParam_DescTable(<<RootParam_TextView(0, 1), RootParam_SamplerView(0, 1),
                               RootParam_ConstBuffView(1, 1)>>) >> }

DescTableInit ==
    /\ \E b \in [1..4 -> Bindings], params \in DescTableRootSignatures,
          input \in ModelInputTypes :
           source = FrameGraphSource(<<PassFileNames[1]>>,
                        ContentsOf([input |-> input, resources |-> DescTableResources(b),
                                    rootSignature |-> params],
                                   EmptyContents))
    /\ compiled = NoValue

DescTableSpecInit ==
    /\ BakerParked
    /\ BuildParked
    /\ PreprocessParked
    /\ FalloffParked
    /\ BufferParked
    /\ ObjectParked
    /\ FrameParked
    /\ PathParked
    /\ DescTableInit

SpecDescTable == DescTableSpecInit /\ [][CompileNext]_vars

----------------------------------------------------------------------------
(* The frame-graph compiler applied to frame-graph files that list the       *)
(* passes in any order, more than once, or list a pass that has no file.     *)

\* the names a frame-graph file may list: the pass files and one name without a file
ListedNames == {PassFileNames[i] : i \in 1..(MaxPasses + 1)}

ListedPassLists == UNION { [1..k -> ListedNames] : k \in 1..MaxPasses }

\* pass files of any input type, without resources or with one pass-local const buffer
PassOrderContents ==
    { [input |-> input, resources |-> resources,
       rootSignature |-> [i \in DOMAIN resources |->
                              RootParam_ConstBuffView(resources[i].registerId, 1)]] :
          input \in InputTypes,
          resources \in {<<>>, <<Resource_ConstBuff("Cam", 0, ViewFields, "Local", "PerPass")>>} }

PassOrderInit ==
    /\ \E list \in ListedPassLists, contents \in [1..MaxPasses -> PassOrderContents] :
           source = FrameGraphSource(list, contents)
    /\ compiled = NoValue

PassOrderSpecInit ==
    /\ BakerParked
    /\ BuildParked
    /\ PreprocessParked
    /\ FalloffParked
    /\ BufferParked
    /\ ObjectParked
    /\ FrameParked
    /\ PathParked
    /\ PassOrderInit

SpecPassOrder == PassOrderSpecInit /\ [][CompileNext]_vars

----------------------------------------------------------------------------
(* FrameGraphBuilder::PreprocessPassFiles on one pass file.  A character of  *)
(* the pass file is its 1-based position in the file; the characters of the  *)
(* included files are numbers above every position.                          *)

MaxFileLen == 5

MaxIncludes == 2

\* ReadFile of the files an include directive may name
IncludedFiles == [common |-> <<101>>, lights |-> <<201, 202>>]

IncludeNames == DOMAIN IncludedFiles

ReadFile(name) == IncludedFiles[name]

\* Parsing::PreprocessorContext::Include as the Instruction callback records it:
\* `pos` the 0-based offset of the directive, `len` its length
Include(name, pos, len) == [name |-> name, pos |-> pos, len |-> len]

\* the pass files of the model
PassFileTexts == { [i \in 1..n |-> i] : n \in 0..MaxFileLen }

\* the directives the parser finds in a pass file of `size` characters from offset
\* `from` on, at most `count` of them, in the order it meets them
RECURSIVE IncludesFrom(_, _, _)
IncludesFrom(size, from, count) ==
    IF count = 0 THEN {<<>>}
    ELSE {<<>>} \cup
         UNION { UNION { { <<Include(name, pos, len)>> \o rest :
                               name \in IncludeNames,
                               rest \in IncludesFrom(size, pos + len, count - 1) } :
                         len \in 1..(size - pos) } :
                 pos \in from..(size - 1) }

\* std::sort of the includes by pos
SortIncludes(includes) == SortSeq(includes, LAMBDA rv, lv : rv.pos < lv.pos)

\* std::string::substr(pos, count); count is a size_t, so a negative int means "to the
\* end"; pos > size() throws std::out_of_range, which the caller of Substr excludes
Substr(str, pos, count) ==
    LET rest == Len(str) - pos
        n == IF count < 0 \/ count > rest THEN rest ELSE count
    IN SubSeq(str, pos + 1, pos + n)

\* the loop over the sorted includes from the k-th on
RECURSIVE PreprocessIncludes(_, _, _, _, _)
PreprocessIncludes(file, includes, k, currentPos, processedFile) ==
    IF k > Len(includes)
    THEN [status |-> "ok", currentPos |-> currentPos, processedFile |-> processedFile]
    ELSE IF currentPos > Len(file)
    THEN [status |-> "throw", currentPos |-> currentPos, processedFile |-> processedFile]
    ELSE LET include == includes[k]
         IN PreprocessIncludes(file, includes, k + 1,
                currentPos + include.pos + include.len,
                processedFile \o Substr(file, currentPos, include.pos - currentPos)
                              \o ReadFile(include.name))

\* the body of PreprocessPassFiles for one file: how it ended and the file's new text
PreprocessPassFile(file, includes) ==
    LET loop == PreprocessIncludes(file, SortIncludes(includes), 1, 0, <<>>)
    IN IF loop.status # "ok" THEN [status |-> loop.status, text |-> file]
       ELSE IF ~(loop.currentPos < Len(file)) THEN [status |-> "assert", text |-> file]
       ELSE IF loop.currentPos + 1 # Len(file)
       THEN [status |-> "ok",
             text |-> loop.processedFile \o Substr(file, loop.currentPos, -1)]
       ELSE [status |-> "ok", text |-> loop.processedFile]

PreprocessInit ==
    /\ currentFile \in PassFileTexts
    /\ fileIncludes \in IncludesFrom(Len(currentFile), 0, MaxIncludes)
    /\ preprocessed = NoValue

RunPreprocessPassFiles ==
    /\ preprocessed = NoValue
    /\ preprocessed' = Some(PreprocessPassFile(currentFile, fileIncludes))
    /\ UNCHANGED <<currentFile, fileIncludes>>
    /\ UNCHANGED nonPreprocessVars

PreprocessNext == RunPreprocessPassFiles

PreprocessSpecInit ==
    /\ BakerParked
    /\ CompileParked
    /\ BuildParked
    /\ FalloffParked
    /\ BufferParked
    /\ ObjectParked
    /\ FrameParked
    /\ PathParked
    /\ PreprocessInit

SpecPreprocess == PreprocessSpecInit /\ [][PreprocessNext]_vars

----------------------------------------------------------------------------
(* CalculateDistanceFalloff.  Distances are whole numbers of length units;   *)
(* a float is the exact fraction it stands for, kept in lowest terms, so     *)
(* the rounding of the float operations is not part of the model.            *)

MaxDist == 5

Distances == 0..MaxDist

RECURSIVE GCD(_, _)
GCD(a, b) == IF b = 0 THEN a ELSE GCD(b, a % b)

\* the fraction num / den (den > 0, num >= 0) in lowest terms
Rat(num, den) == LET g == GCD(num, den) IN [num |-> num \div g, den |-> den \div g]

Zero == Rat(0, 1)

One == Rat(1, 1)

\* a * b, the common factors removed before the products are formed
RatMul(a, b) ==
    LET g1 == GCD(a.num, b.den)
        g2 == GCD(b.num, a.den)
    IN Rat((a.num \div g1) * (b.num \div g2), (a.den \div g2) * (b.den \div g1))

\* std::powf(a, n) for a whole exponent n >= 1
RECURSIVE RatPow(_, _)
RatPow(a, n) == IF n = 1 THEN a ELSE RatMul(a, RatPow(a, n - 1))

\* std::max(0.0f, 1.0f - a)
MaxZeroOneMinus(a) == IF a.num >= a.den THEN Zero ELSE Rat(a.den - a.num, a.den)

\* a < b, compared through the whole parts and the reciprocals of the remainders
RECURSIVE RatLess(_, _)
RatLess(a, b) ==
    LET qa == a.num \div a.den
        qb == b.num \div b.den
        ra == a.num % a.den
        rb == b.num % b.den
    IN IF qa # qb THEN qa < qb
       ELSE IF rb = 0 THEN FALSE
       ELSE IF ra = 0 THEN TRUE
       ELSE RatLess([num |-> b.den, den |-> rb], [num |-> a.den, den |-> ra])

\* the mutated function: the test against dist0 comes first
CalculateDistanceFalloffNearFirst(dist, dist0, distMax) ==
    IF dist <= dist0 THEN [status |-> "ok", value |-> One]
    ELSE IF dist >= distMax THEN [status |-> "ok", value |-> Zero]
    ELSE IF ~(dist > 0) \/ ~(distMax > 0) THEN [status |-> "assert", value |-> Zero]
    ELSE LET windowedFunctionValue ==
                 RatPow(MaxZeroOneMinus(RatPow(Rat(dist, distMax), 4)), 2)
             distanceFalloff == RatPow(Rat(dist0, dist), 2)
         IN [status |-> "ok", value |-> RatMul(windowedFunctionValue, distanceFalloff)]

\* CalculateDistanceFalloff: how the call ended and the value returned
CalculateDistanceFalloff(dist, dist0, distMax) ==
    IF dist >= distMax THEN [status |-> "ok", value |-> Zero]
    ELSE IF dist <= dist0 THEN [status |-> "ok", value |-> One]
    ELSE IF ~(dist > 0) \/ ~(distMax > 0) THEN [status |-> "assert", value |-> Zero]
    ELSE LET windowedFunctionValue ==
                 RatPow(MaxZeroOneMinus(RatPow(Rat(dist, distMax), 4)), 2)
             distanceFalloff == RatPow(Rat(dist0, dist), 2)
         IN [status |-> "ok", value |-> RatMul(windowedFunctionValue, distanceFalloff)]

\* a call with a distance to the light, a light radius and a maximal distance
FalloffInit ==
    /\ falloffArgs \in [dist : Distances, dist0 : Distances, distMax : Distances \ {0}]
    /\ falloffResult = NoValue

RunCalculateDistanceFalloff ==
    /\ falloffResult = NoValue
    /\ falloffResult' = Some(CalculateDistanceFalloff(falloffArgs.dist, falloffArgs.dist0,
                                                      falloffArgs.distMax))
    /\ UNCHANGED falloffArgs
    /\ UNCHANGED nonFalloffVars

FalloffNext == RunCalculateDistanceFalloff

FalloffSpecInit ==
    /\ BakerParked
    /\ CompileParked
    /\ BuildParked
    /\ PreprocessParked
    /\ BufferParked
    /\ ObjectParked
    /\ FrameParked
    /\ PathParked
    /\ FalloffInit

SpecFalloff == FalloffSpecInit /\ [][FalloffNext]_vars

----------------------------------------------------------------------------
(* FrameGraphBuilder::BuildFrameGraph, called by the main thread every       *)
(* frame.  The files on disk change at any time; the GPU completes frames at *)
(* any time.                                                                 *)

MaxFramesInFlight == 2

SharedCam == Resource_ConstBuff("Cam", 0, ViewFields, "Global", "PerPass")

CamOnly == [input |-> "UI", resources |-> <<SharedCam>>,
            rootSignature |-> <<RootParam_ConstBuffView(0, 1)>>]

CamAndObj == [input |-> "Static", resources |-> <<SharedCam, ObjDecl>>,
              rootSignature |-> <<RootParam_ConstBuffView(0, 1), RootParam_ConstBuffView(1, 1)>>]

OtherCam == [input |-> "Static",
             resources |-> <<Resource_ConstBuff("Cam", 0, ProjFields, "Global", "PerPass")>>,
             rootSignature |-> <<RootParam_ConstBuffView(0, 1)>>]

\* what the source directory may hold: sources that compile, one whose resources
\* collide, and one the grammar rejects
DiskSources ==
    { [parsable |-> TRUE,
       source |-> FrameGraphSource(<<PassFileNames[1], PassFileNames[2]>>,
                                   ContentsOf(CamOnly, CamAndObj))],
      [parsable |-> TRUE,
       source |-> FrameGraphSource(<<PassFileNames[2]>>, ContentsOf(CamOnly, CamAndObj))],
      [parsable |-> TRUE,
       source |-> FrameGraphSource(<<PassFileNames[1], PassFileNames[2]>>,
                                   ContentsOf(CamOnly, OtherCam))],
      [parsable |-> FALSE,
       source |-> FrameGraphSource(<<PassFileNames[1]>>, ContentsOf(CamOnly, CamOnly))] }

BuildInit ==
    /\ outFrameGraph = NoValue
    /\ sourceWatchHandle = "INVALID_HANDLE_VALUE"
    /\ diskSource \in DiskSources
    /\ framesInFlight = 0
    /\ buildPc = "idle"
    /\ buildReturn = "none"
    /\ graphBeforeCall = NoValue
    /\ flushedFrames = NoValue
    /\ buildFailure = "none"

\* a file of the source directory is written: an armed watch handle becomes signalled
EditSource(newSource) ==
    /\ buildPc # "aborted"
    /\ diskSource' = newSource
    /\ sourceWatchHandle' = IF sourceWatchHandle = "waiting" THEN "signalled"
                            ELSE sourceWatchHandle
    /\ UNCHANGED <<outFrameGraph, framesInFlight, buildPc, buildReturn, graphBeforeCall,
                   flushedFrames, buildFailure>>
    /\ UNCHANGED nonBuildVars

\* the main thread submits a frame that executes the current frame graph
SubmitFrame ==
    /\ buildPc = "idle"
    /\ outFrameGraph # NoValue
    /\ framesInFlight < MaxFramesInFlight
    /\ framesInFlight' = framesInFlight + 1
    /\ UNCHANGED <<outFrameGraph, sourceWatchHandle, diskSource, buildPc, buildReturn,
                   graphBeforeCall, flushedFrames, buildFailure>>
    /\ UNCHANGED nonBuildVars

\* the GPU passes the fence of a frame
FrameCompletes ==
    /\ buildPc # "aborted"
    /\ framesInFlight > 0
    /\ framesInFlight' = framesInFlight - 1
    /\ UNCHANGED <<outFrameGraph, sourceWatchHandle, diskSource, buildPc, buildReturn,
                   graphBeforeCall, flushedFrames, buildFailure>>
    /\ UNCHANGED nonBuildVars

\* the main thread enters BuildFrameGraph(outFrameGraph)
CallBuildFrameGraph ==
    /\ buildPc = "idle"
    /\ buildPc' = "IsSourceChanged"
    /\ buildReturn' = "none"
    /\ graphBeforeCall' = outFrameGraph
    /\ flushedFrames' = NoValue
    /\ buildFailure' = "none"
    /\ UNCHANGED <<outFrameGraph, sourceWatchHandle, diskSource, framesInFlight>>
    /\ UNCHANGED nonBuildVars

\* the mutated watch: a signalled handle is reported and left signalled
IsSourceChangedNoRearm(handle) ==
    IF handle = "INVALID_HANDLE_VALUE" THEN [changed |-> TRUE, handle |-> "waiting"]
    ELSE IF handle = "signalled" THEN [changed |-> TRUE, handle |-> handle]
    ELSE [changed |-> FALSE, handle |-> handle]

\* IsSourceChanged: what it returns and the watch handle it leaves
IsSourceChanged(handle) ==
    IF handle = "INVALID_HANDLE_VALUE" THEN [changed |-> TRUE, handle |-> "waiting"]
    ELSE IF handle = "signalled" THEN [changed |-> TRUE, handle |-> "waiting"]
    ELSE [changed |-> FALSE, handle |-> handle]

\* the mutated control flow: the rebuild does not flush the frames in flight
StepAfterSourceChangedNoFlush(changed) == IF changed THEN "CompileFrameGraph" ELSE "idle"

\* lines 1096-1103: return false when the source did not change, flush otherwise
StepAfterSourceChanged(changed) == IF changed THEN "FlushAllFrames" ELSE "idle"

\* lines 1096-1099
BuildIsSourceChanged ==
    /\ buildPc = "IsSourceChanged"
    /\ LET r == IsSourceChanged(sourceWatchHandle)
       IN /\ sourceWatchHandle' = r.handle
          /\ buildPc' = StepAfterSourceChanged(r.changed)
          /\ buildReturn' = IF r.changed THEN buildReturn ELSE "false"
    /\ UNCHANGED <<outFrameGraph, diskSource, framesInFlight, graphBeforeCall,
                   flushedFrames, buildFailure>>
    /\ UNCHANGED nonBuildVars

\* line 1103: Renderer::FlushAllFrames returns when every frame in flight has completed
BuildFlushAllFrames ==
    /\ buildPc = "FlushAllFrames"
    /\ flushedFrames' = Some(framesInFlight)
    /\ framesInFlight' = 0
    /\ buildPc' = "CompileFrameGraph"
    /\ UNCHANGED <<outFrameGraph, sourceWatchHandle, diskSource, buildReturn,
                   graphBeforeCall, buildFailure>>
    /\ UNCHANGED nonBuildVars

\* GenerateFrameGraphSource: the parsers' log handlers assert on a grammar error
GenerateFrameGraphSource(disk) ==
    IF disk.parsable THEN [status |-> "ok", step |-> "done", source |-> disk.source]
    ELSE [status |-> "assert", step |-> "ParsePassFiles", source |-> disk.source]

\* the step at which a rebuild failed, "none" if every step succeeded
RebuildFailure(generated, result) ==
    IF generated.status # "ok" THEN generated.step
    ELSE IF result.status # "ok" THEN result.step
    ELSE IF \E n \in DOMAIN result.frameGraph.passes :
                result.frameGraph.passes[n].passParameters.rootSingature = "null"
         THEN "GenerateRootSignature"
    ELSE "none"

\* how the rebuild ended: the status of the first step that did not succeed
RebuildStatus(generated, result) ==
    IF generated.status # "ok" THEN generated.status ELSE result.status

\* the end of line 1104 for the outcome `status` of the rebuild: the assignment to
\* outFrameGraph and the return, or the exception, or the failed assert
AssignFrameGraphOn(status, generated, result) ==
    /\ outFrameGraph' = IF status = "ok" THEN Some(result.frameGraph) ELSE outFrameGraph
    /\ buildReturn' = IF status = "ok" THEN "true"
                      ELSE IF status = "throw" THEN "throw" ELSE buildReturn
    /\ buildPc' = IF status \in {"ok", "throw"} THEN "idle" ELSE "aborted"
    /\ buildFailure' = RebuildFailure(generated, result)

AssignFrameGraph(generated, result) ==
    AssignFrameGraphOn(RebuildStatus(generated, result), generated, result)

\* line 1104: outFrameGraph = make_unique<FrameGraph>(CompileFrameGraph(
\* GenerateFrameGraphSource())); an exception leaves the call before the assignment, a
\* failed assert stops the program
BuildCompileFrameGraph ==
    /\ buildPc = "CompileFrameGraph"
    /\ \E device \in [PassNames -> DeviceOutcomes] :
           AssignFrameGraph(GenerateFrameGraphSource(diskSource),
               CompileFrameGraph(GenerateFrameGraphSource(diskSource).source, device))
    /\ UNCHANGED <<sourceWatchHandle, diskSource, framesInFlight, graphBeforeCall,
                   flushedFrames>>
    /\ UNCHANGED nonBuildVars

BuildNext ==
    \/ \E newSource \in DiskSources : EditSource(newSource)
    \/ SubmitFrame
    \/ FrameCompletes
    \/ CallBuildFrameGraph
    \/ BuildIsSourceChanged
    \/ BuildFlushAllFrames
    \/ BuildCompileFrameGraph

BuildSpecInit ==
    /\ BakerParked
    /\ CompileParked
    /\ PreprocessParked
    /\ FalloffParked
    /\ BufferParked
    /\ ObjectParked
    /\ FrameParked
    /\ PathParked
    /\ BuildInit

SpecBuild == BuildSpecInit /\ [][BuildNext]_vars

----------------------------------------------------------------------------
(* BufferAllocator<SIZE> (dx_buffer.h).  allocations is the std::list in     *)
(* list order.  A failed assert stops a build with asserts; without them the *)
(* function goes on to its return statement.                                 *)

BufferSize == 4       \* SIZE and BUFFER_SIZE, the template arguments
MaxAllocSize == 2     \* the largest size a caller asks for
MaxAllocations == 5   \* Allocate is not called on a list that already has this many records
HandlersNum == 3      \* HANDLERS_NUM, the template argument

INVALID_OFFSET == -1

Allocation(offset, size) == [offset |-> offset, size |-> size]

AllocSizes == 1..MaxAllocSize

\* std::list::insert(pos, value): the value goes in front of the element at pos
ListInsert(list, pos, value) ==
    SubSeq(list, 1, pos - 1) \o <<value>> \o SubSeq(list, pos, Len(list))

\* Allocate, "Check before existing allocations": the record is pushed and the
\* function goes on
AllocateBefore(allocs, size) ==
    LET nextOffset == IF allocs = <<>> THEN BufferSize ELSE allocs[1].offset
    IN IF nextOffset >= size THEN <<Allocation(0, size)>> \o allocs ELSE allocs

\* Allocate, "Check between existing allocations", from interval i on: the position of
\* the first interval that is wide enough, 0 when there is none
RECURSIVE AllocateBetween(_, _, _)
AllocateBetween(allocs, size, i) ==
    IF i > Len(allocs) - 1 THEN 0
    ELSE IF allocs[i + 1].offset - (allocs[i].offset + allocs[i].size) >= size THEN i
    ELSE AllocateBetween(allocs, size, i + 1)

\* the mutated check: the record is pushed whether or not it fits
AllocateAfterAlwaysPushes(allocs, size) ==
    LET lastAllocEnd == allocs[Len(allocs)].offset + allocs[Len(allocs)].size
    IN IF allocs # <<>> /\ BufferSize - lastAllocEnd >= size
       THEN [allocations |-> Append(allocs, Allocation(lastAllocEnd, size)),
             offset |-> lastAllocEnd, asserted |-> FALSE]
       ELSE [allocations |-> Append(allocs, Allocation(lastAllocEnd, size)),
             offset |-> INVALID_OFFSET, asserted |-> TRUE]

\* Allocate, "Check after existing allocations"
AllocateAfter(allocs, size) ==
    LET lastAllocEnd == allocs[Len(allocs)].offset + allocs[Len(allocs)].size
    IN IF allocs # <<>> /\ BufferSize - lastAllocEnd >= size
       THEN [allocations |-> Append(allocs, Allocation(lastAllocEnd, size)),
             offset |-> lastAllocEnd, asserted |-> FALSE]
       ELSE [allocations |-> allocs, offset |-> INVALID_OFFSET, asserted |-> TRUE]

\* the two later checks of Allocate on the list the first check left
AllocateRest(allocs, size) ==
    LET i == AllocateBetween(allocs, size, 1)
        currAllocEnd == allocs[i].offset + allocs[i].size
    IN IF i # 0
       THEN [allocations |-> ListInsert(allocs, i, Allocation(currAllocEnd, size)),
             offset |-> currAllocEnd, asserted |-> FALSE]
       ELSE AllocateAfter(allocs, size)

\* BufferAllocator::Allocate(size): the list it leaves, the offset it returns and
\* whether its assert(false) was reached
BufferAllocator_Allocate(allocs, size) == AllocateRest(AllocateBefore(allocs, size), size)

\* position of the first record with this offset, 0 when there is none (std::find_if)
RECURSIVE FindAllocation(_, _, _)
FindAllocation(allocs, offset, i) ==
    IF i > Len(allocs) THEN 0
    ELSE IF allocs[i].offset = offset THEN i
    ELSE FindAllocation(allocs, offset, i + 1)

\* BufferAllocator::Delete(offset)
BufferAllocator_Delete(allocs, offset) ==
    LET it == FindAllocation(allocs, offset, 1)
    IN IF it = 0
       THEN [allocations |-> allocs, asserted |-> TRUE]
       ELSE [allocations |-> SubSeq(allocs, 1, it - 1) \o SubSeq(allocs, it + 1, Len(allocs)),
             asserted |-> FALSE]

\* BufferAllocator::ClearAll
BufferAllocator_ClearAll(allocs) == <<>>

\* how a call that reached (or did not reach) a failing assert ends in this build
CallStatus(asserted) == IF asserted /\ assertsEnabled THEN "assert" ELSE "returned"

BufferRunning == bufferCall.status # "assert"

BufferInit ==
    /\ allocations = <<>>
    /\ m_handlers = <<>>
    /\ assertsEnabled \in BOOLEAN
    /\ bufferCall = [op |-> "none", arg |-> 0, ret |-> 0, status |-> "none", before |-> <<>>]
    /\ handlerOffsets = <<>>

\* a call of Allocate(size) on the allocator
CallAllocate(size) ==
    /\ BufferRunning
    /\ Len(allocations) < MaxAllocations
    /\ allocations' = BufferAllocator_Allocate(allocations, size).allocations
    /\ bufferCall' = [op |-> "Allocate", arg |-> size,
                      ret |-> BufferAllocator_Allocate(allocations, size).offset,
                      status |-> CallStatus(BufferAllocator_Allocate(allocations, size).asserted),
                      before |-> allocations]
    /\ UNCHANGED <<m_handlers, assertsEnabled, handlerOffsets>>
    /\ UNCHANGED nonBufferVars

\* a call of Delete(offset) on the allocator
CallDelete(offset) ==
    /\ BufferRunning
    /\ allocations' = BufferAllocator_Delete(allocations, offset).allocations
    /\ bufferCall' = [op |-> "Delete", arg |-> offset, ret |-> 0,
                      status |-> CallStatus(BufferAllocator_Delete(allocations, offset).asserted),
                      before |-> allocations]
    /\ UNCHANGED <<m_handlers, assertsEnabled, handlerOffsets>>
    /\ UNCHANGED nonBufferVars

\* a call of ClearAll() on the allocator
CallClearAll ==
    /\ BufferRunning
    /\ allocations # <<>>
    /\ allocations' = BufferAllocator_ClearAll(allocations)
    /\ bufferCall' = [op |-> "ClearAll", arg |-> 0, ret |-> 0, status |-> "returned",
                      before |-> allocations]
    /\ UNCHANGED <<m_handlers, assertsEnabled, handlerOffsets>>
    /\ UNCHANGED nonBufferVars

BufferNext ==
    \/ \E size \in AllocSizes : CallAllocate(size)
    \/ \E offset \in 0..(BufferSize - 1) : CallDelete(offset)
    \/ CallClearAll

BufferSpecInit ==
    /\ BakerParked
    /\ CompileParked
    /\ BuildParked
    /\ PreprocessParked
    /\ FalloffParked
    /\ ObjectParked
    /\ FrameParked
    /\ PathParked
    /\ BufferInit

SpecBuffer == BufferSpecInit /\ [][BufferNext]_vars

----------------------------------------------------------------------------
(* HandlerBuffer<BUFFER_SIZE, HANDLERS_NUM> (dx_buffer.h) over its own       *)
(* allocBuffer.allocator.  Handlers are counted from 0; m_handlers[h + 1] is *)
(* the entry of handler h.                                                   *)

Handlers == 0..(HandlersNum - 1)

\* HandlerBuffer::Allocate, "Find free handler slot": the first handler whose entry is
\* INVALID_OFFSET, INVALID_BUFFER_HANDLER when every entry is taken
RECURSIVE FindFreeHandler(_, _)
FindFreeHandler(handlers, currentH) ==
    IF currentH >= HandlersNum THEN INVALID_BUFFER_HANDLER
    ELSE IF handlers[currentH + 1] = INVALID_OFFSET THEN currentH
    ELSE FindFreeHandler(handlers, currentH + 1)

\* HandlerBuffer::GetOffset(handler)
GetOffset(handler) == m_handlers[handler + 1]

\* the handlers Allocate has returned and Delete has not yet been called on
LiveHandlers == {h \in Handlers : handlerOffsets[h + 1] # NoValue}

HandlerBufferInit ==
    /\ allocations = <<>>
    /\ m_handlers = [h \in 1..HandlersNum |-> INVALID_OFFSET]
    /\ assertsEnabled \in BOOLEAN
    /\ bufferCall = [op |-> "none", arg |-> 0, ret |-> 0, status |-> "none", before |-> <<>>]
    /\ handlerOffsets = [h \in 1..HandlersNum |-> NoValue]

\* HandlerBuffer::Allocate(size) when a handler is free
HandlerAllocate(size) ==
    /\ BufferRunning
    /\ Len(allocations) < MaxAllocations
    /\ FindFreeHandler(m_handlers, 0) # INVALID_BUFFER_HANDLER
    /\ allocations' = BufferAllocator_Allocate(allocations, size).allocations
    /\ bufferCall' = [op |-> "HandlerAllocate", arg |-> size,
                      ret |-> FindFreeHandler(m_handlers, 0),
                      status |-> CallStatus(BufferAllocator_Allocate(allocations, size).asserted),
                      before |-> handlerOffsets]
    /\ IF CallStatus(BufferAllocator_Allocate(allocations, size).asserted) = "assert"
       THEN UNCHANGED <<m_handlers, handlerOffsets>>
       ELSE /\ m_handlers' = [m_handlers EXCEPT ![FindFreeHandler(m_handlers, 0) + 1] =
                                  BufferAllocator_Allocate(allocations, size).offset]
            /\ handlerOffsets' = [handlerOffsets EXCEPT ![FindFreeHandler(m_handlers, 0) + 1] =
                                      Some(BufferAllocator_Allocate(allocations, size).offset)]
    /\ UNCHANGED assertsEnabled
    /\ UNCHANGED nonBufferVars

\* HandlerBuffer::Allocate(size) when no handler is free: the assert fails; without
\* asserts m_handlers is written out of bounds, which stops the program or goes unnoticed
HandlerAllocateNoneFree(size) ==
    /\ BufferRunning
    /\ Len(allocations) < MaxAllocations
    /\ FindFreeHandler(m_handlers, 0) = INVALID_BUFFER_HANDLER
    /\ \E outcome \in IF assertsEnabled THEN {"assert"} ELSE {"assert", "returned"} :
           /\ bufferCall' = [op |-> "HandlerAllocate", arg |-> size,
                             ret |-> INVALID_BUFFER_HANDLER,
                             status |-> outcome, before |-> handlerOffsets]
           /\ allocations' = IF assertsEnabled THEN allocations
                             ELSE BufferAllocator_Allocate(allocations, size).allocations
    /\ UNCHANGED <<m_handlers, assertsEnabled, handlerOffsets>>
    /\ UNCHANGED nonBufferVars

\* HandlerBuffer::Delete(handler) on a handler the caller holds (the program stops at
\* the first assert when the entry of the handler is INVALID_OFFSET)
HandlerDelete(handler) ==
    /\ BufferRunning
    /\ handler \in LiveHandlers
    /\ bufferCall' = [op |-> "HandlerDelete", arg |-> handler, ret |-> 0,
                      status |-> CallStatus(GetOffset(handler) = INVALID_OFFSET),
                      before |-> handlerOffsets]
    /\ allocations' = BufferAllocator_Delete(allocations, GetOffset(handler)).allocations
    /\ m_handlers' = [m_handlers EXCEPT ![handler + 1] = INVALID_OFFSET]
    /\ handlerOffsets' = [handlerOffsets EXCEPT ![handler + 1] = NoValue]
    /\ UNCHANGED assertsEnabled
    /\ UNCHANGED nonBufferVars

HandlerBufferNext ==
    \/ \E size \in AllocSizes : HandlerAllocate(size)
    \/ \E size \in AllocSizes : HandlerAllocateNoneFree(size)
    \/ \E handler \in Handlers : HandlerDelete(handler)

HandlerBufferSpecInit ==
    /\ BakerParked
    /\ CompileParked
    /\ BuildParked
    /\ PreprocessParked
    /\ FalloffParked
    /\ ObjectParked
    /\ FrameParked
    /\ PathParked
    /\ HandlerBufferInit

SpecHandlerBuffer == HandlerBufferSpecInit /\ [][HandlerBufferNext]_vars

----------------------------------------------------------------------------
(* Move construction, move assignment and destruction of StaticObject,       *)
(* DynamicObjectModel and DynamicObjectConstBuffer (dx_objects.cpp).  An     *)
(* offset or handler is a number from 0; fields lists the owning fields of a *)
(* value: constantBufferOffset, or textureCoords, vertices and indices.      *)

MaxObjects == 3       \* the values of one run

ObjectIds == 1..MaxObjects

ObjectTypes == {"StaticObject", "DynamicObjectModel", "DynamicObjectConstBuffer"}

\* the number of owning fields of a class
OwningFields(type) == IF type = "DynamicObjectModel" THEN 3 ELSE 1

\* BufConst::INVALID_OFFSET for the offsets, BufConst::INVALID_BUFFER_HANDLER for the handlers
InvalidField(type) ==
    IF type = "DynamicObjectModel" THEN INVALID_BUFFER_HANDLER ELSE INVALID_OFFSET

\* a value that owns nothing
EmptyFields(type) == [f \in 1..OwningFields(type) |-> InvalidField(type)]

\* what the move constructor and the move assignment do to the owning fields: the
\* fields of `other` are copied over those of the target and reset in `other`
MoveFields(type, other) == [target |-> other, other |-> EmptyFields(type)]

\* operator=(T&& other) of the three classes on the owning fields (this # &other)
MoveAssign(type, this, other) == MoveFields(type, other)

\* ~T(): the fields given back to the Renderer, those that are not invalid
Destructor(type, this) == {this[f] : f \in DOMAIN this} \ {InvalidField(type)}

ObjectInit ==
    /\ objectType \in ObjectTypes
    /\ objects = [o \in ObjectIds |-> [state |-> "none", fields |-> <<>>]]
    /\ acquiredResources = 0
    /\ releases = [r \in 0..(3 * MaxObjects - 1) |-> 0]

\* a value is created, owning nothing or owning offsets or handlers obtained for it
Construct(o, owning) ==
    /\ objects[o].state = "none"
    /\ objects' = [objects EXCEPT ![o] =
           [state |-> "alive",
            fields |-> IF owning
                       THEN [f \in 1..OwningFields(objectType) |-> acquiredResources + f - 1]
                       ELSE EmptyFields(objectType)]]
    /\ acquiredResources' = IF owning THEN acquiredResources + OwningFields(objectType)
                            ELSE acquiredResources
    /\ UNCHANGED <<objectType, releases>>
    /\ UNCHANGED nonObjectVars

\* T o(std::move(other))
MoveConstructObject(o, other) ==
    /\ objects[o].state = "none"
    /\ objects[other].state = "alive"
    /\ objects' = [objects EXCEPT
           ![o] = [state |-> "alive",
                   fields |-> MoveFields(objectType, objects[other].fields).target],
           ![other].fields = MoveFields(objectType, objects[other].fields).other]
    /\ UNCHANGED <<objectType, acquiredResources, releases>>
    /\ UNCHANGED nonObjectVars

\* o = std::move(other); PREVENT_SELF_MOVE_ASSIGN returns when o is other
MoveAssignObject(o, other) ==
    /\ objects[o].state = "alive"
    /\ objects[other].state = "alive"
    /\ o # other
    /\ objects' = [objects EXCEPT
           ![o].fields = MoveAssign(objectType, objects[o].fields, objects[other].fields).target,
           ![other].fields = MoveAssign(objectType, objects[o].fields, objects[other].fields).other]
    /\ UNCHANGED <<objectType, acquiredResources, releases>>
    /\ UNCHANGED nonObjectVars

\* the value is destroyed
DestroyObject(o) ==
    /\ objects[o].state = "alive"
    /\ objects' = [objects EXCEPT ![o] = [state |-> "destroyed", fields |-> <<>>]]
    /\ releases' = [r \in DOMAIN releases |->
                        IF r \in Destructor(objectType, objects[o].fields)
                        THEN releases[r] + 1 ELSE releases[r]]
    /\ UNCHANGED <<objectType, acquiredResources>>
    /\ UNCHANGED nonObjectVars

ObjectNext ==
    \/ \E o \in ObjectIds, owning \in BOOLEAN : Construct(o, owning)
    \/ \E o, other \in ObjectIds : MoveConstructObject(o, other)
    \/ \E o, other \in ObjectIds : MoveAssignObject(o, other)
    \/ \E o \in ObjectIds : DestroyObject(o)

ObjectSpecInit ==
    /\ BakerParked
    /\ CompileParked
    /\ BuildParked
    /\ PreprocessParked
    /\ FalloffParked
    /\ BufferParked
    /\ FrameParked
    /\ PathParked
    /\ ObjectInit

SpecObject == ObjectSpecInit /\ [][ObjectNext]_vars

----------------------------------------------------------------------------
(* Frame: Init, move construction, move assignment and destruction           *)
(* (dx_frame.cpp).  A descriptor heap is the set of its allocated indices.   *)

MaxFrames == 2        \* the Frame values of one run
HeapSize == 2         \* the descriptors of a heap

FrameIds == 1..MaxFrames

HeapIndices == 0..(HeapSize - 1)

\* depthBufferViewIndex of a Frame that owns no view
NoViewIndex == -1

\* DescriptorHeap::Allocate: the first free index of the heap
DescriptorHeap_Allocate(heap) ==
    CHOOSE i \in HeapIndices \ heap : \A j \in HeapIndices \ heap : i <= j

\* DescriptorHeap::Delete(index): the index is free again
DescriptorHeap_Delete(heap, index) == heap \ {index}

\* Frame::operator=(Frame&& other) on depthBufferViewIndex (this # &other)
Frame_MoveAssign(this, other) == [target |-> other, other |-> NoViewIndex]

FrameInit ==
    /\ frames = [f \in FrameIds |-> [state |-> "none", depthBufferViewIndex |-> NoViewIndex]]
    /\ dsvHeap = {}
    /\ rtvHeap \in SUBSET HeapIndices
    /\ heapDeletes = {}

\* Frame f; : a default-constructed frame
ConstructFrame(f) ==
    /\ frames[f].state = "none"
    /\ frames' = [frames EXCEPT ![f].state = "alive"]
    /\ UNCHANGED <<dsvHeap, rtvHeap, heapDeletes>>
    /\ UNCHANGED nonFrameVars

\* Frame::Init on a frame that has no depth-buffer view yet
Frame_Init(f) ==
    /\ frames[f].state = "alive"
    /\ frames[f].depthBufferViewIndex = NoViewIndex
    /\ dsvHeap # HeapIndices
    /\ frames' = [frames EXCEPT ![f].depthBufferViewIndex = DescriptorHeap_Allocate(dsvHeap)]
    /\ dsvHeap' = dsvHeap \cup {DescriptorHeap_Allocate(dsvHeap)}
    /\ UNCHANGED <<rtvHeap, heapDeletes>>
    /\ UNCHANGED nonFrameVars

\* Frame::Frame(Frame&& other): *this = std::move(other) on a fresh frame
Frame_MoveConstruct(f, other) ==
    /\ frames[f].state = "none"
    /\ frames[other].state = "alive"
    /\ frames' = [frames EXCEPT
           ![f] = [state |-> "alive",
                   depthBufferViewIndex |->
                       Frame_MoveAssign(NoViewIndex, frames[other].depthBufferViewIndex).target],
           ![other].depthBufferViewIndex =
               Frame_MoveAssign(NoViewIndex, frames[other].depthBufferViewIndex).other]
    /\ UNCHANGED <<dsvHeap, rtvHeap, heapDeletes>>
    /\ UNCHANGED nonFrameVars

\* f = std::move(other); PREVENT_SELF_MOVE_ASSIGN returns when f is other
Frame_MoveAssignTo(f, other) ==
    /\ frames[f].state = "alive"
    /\ frames[other].state = "alive"
    /\ f # other
    /\ frames' = [frames EXCEPT
           ![f].depthBufferViewIndex =
               Frame_MoveAssign(frames[f].depthBufferViewIndex,
                                frames[other].depthBufferViewIndex).target,
           ![other].depthBufferViewIndex =
               Frame_MoveAssign(frames[f].depthBufferViewIndex,
                                frames[other].depthBufferViewIndex).other]
    /\ UNCHANGED <<dsvHeap, rtvHeap, heapDeletes>>
    /\ UNCHANGED nonFrameVars

\* Frame::~Frame
Frame_Destroy(f) ==
    /\ frames[f].state = "alive"
    /\ frames' = [frames EXCEPT ![f] = [state |-> "destroyed",
                                        depthBufferViewIndex |-> NoViewIndex]]
    /\ IF frames[f].depthBufferViewIndex # NoViewIndex
       THEN /\ rtvHeap' = DescriptorHeap_Delete(rtvHeap, frames[f].depthBufferViewIndex)
            /\ heapDeletes' = heapDeletes \cup
                   {[heap |-> "rtvHeap", index |-> frames[f].depthBufferViewIndex,
                     allocated |-> frames[f].depthBufferViewIndex \in rtvHeap]}
       ELSE UNCHANGED <<rtvHeap, heapDeletes>>
    /\ UNCHANGED dsvHeap
    /\ UNCHANGED nonFrameVars

FrameNext ==
    \/ \E f \in FrameIds : ConstructFrame(f)
    \/ \E f \in FrameIds : Frame_Init(f)
    \/ \E f, other \in FrameIds : Frame_MoveConstruct(f, other)
    \/ \E f, other \in FrameIds : Frame_MoveAssignTo(f, other)
    \/ \E f \in FrameIds : Frame_Destroy(f)

FrameSpecInit ==
    /\ BakerParked
    /\ CompileParked
    /\ BuildParked
    /\ PreprocessParked
    /\ FalloffParked
    /\ BufferParked
    /\ ObjectParked
    /\ PathParked
    /\ FrameInit

SpecFrame == FrameSpecInit /\ [][FrameNext]_vars

----------------------------------------------------------------------------
(* LightBaker::PathTraceFromProbe: the bounce loop of one call.  The scene   *)
(* decides whether a ray hits; a DX_ASSERT on the sampled direction may fail *)
(* and stop the program.                                                     *)

GUARANTEED_BOUNCES_NUM == 5   \* Settings::GUARANTEED_BOUNCES_NUM

\* the mutated test: one bounce more is guaranteed
IsGuaranteedBounceOneMore(bounce) == bounce < GUARANTEED_BOUNCES_NUM + 1

\* const bool isGuaranteedBounce = rayBounce < Settings::GUARANTEED_BOUNCES_NUM
IsGuaranteedBounce(bounce) == bounce < GUARANTEED_BOUNCES_NUM

PathInit ==
    /\ pathPc = "test"
    /\ rayBounce = 0
    /\ pathFlags \in [SaveRayPath : BOOLEAN, SaveLightSampling : BOOLEAN]
    /\ pathSegments = 0
    /\ lightSamples = 0
    /\ pathHits = <<>>
    /\ rouletteDraws = 0

\* the head of the loop: a bounce that is not guaranteed breaks out of the loop, before
\* the Russian-roulette sample is drawn
TestGuaranteedBounce ==
    /\ pathPc = "test"
    /\ pathPc' = IF IsGuaranteedBounce(rayBounce) THEN "query" ELSE "store"
    /\ UNCHANGED <<rayBounce, pathFlags, pathSegments, lightSamples, pathHits, rouletteDraws>>
    /\ UNCHANGED nonPathVars

\* bspTree.FindClosestRayIntersection(ray) and what follows up to the light gathering:
\* a miss records the ray and breaks, a hit records the segment and the light sample
FindClosestRayIntersection(isIntersected) ==
    /\ pathPc = "query"
    /\ pathHits' = Append(pathHits, isIntersected)
    /\ pathSegments' = IF pathFlags.SaveRayPath THEN pathSegments + 1 ELSE pathSegments
    /\ lightSamples' = IF isIntersected /\ pathFlags.SaveLightSampling
                       THEN lightSamples + 1 ELSE lightSamples
    /\ pathPc' = IF isIntersected THEN "bounce" ELSE "store"
    /\ UNCHANGED <<rayBounce, pathFlags, rouletteDraws>>
    /\ UNCHANGED nonPathVars

\* the direct irradiance, the new ray direction with its DX_ASSERTs, the throughput
\* and ++rayBounce
Bounce(assertsHold) ==
    /\ pathPc = "bounce"
    /\ pathPc' = IF assertsHold THEN "test" ELSE "assert"
    /\ rayBounce' = IF assertsHold THEN rayBounce + 1 ELSE rayBounce
    /\ UNCHANGED <<pathFlags, pathSegments, lightSamples, pathHits, rouletteDraws>>
    /\ UNCHANGED nonPathVars

\* XMStoreFloat4(&result.radiance, sseRadiance); return result
StoreRadiance ==
    /\ pathPc = "store"
    /\ pathPc' = "returned"
    /\ UNCHANGED <<rayBounce, pathFlags, pathSegments, lightSamples, pathHits, rouletteDraws>>
    /\ UNCHANGED nonPathVars

PathNext ==
    \/ TestGuaranteedBounce
    \/ \E isIntersected \in BOOLEAN : FindClosestRayIntersection(isIntersected)
    \/ \E assertsHold \in BOOLEAN : Bounce(assertsHold)
    \/ StoreRadiance

PathSpecInit ==
    /\ BakerParked
    /\ CompileParked
    /\ BuildParked
    /\ PreprocessParked
    /\ FalloffParked
    /\ BufferParked
    /\ ObjectParked
    /\ FrameParked
    /\ PathInit

SpecPath == PathSpecInit /\ [][PathNext]_vars

\* the thread that runs the call keeps running
SpecPathLive == SpecPath /\ WF_vars(PathNext)

----------------------------------------------------------------------------
(* Light baker: properties *)

\* the bake has run to the point where every BakeJob has returned
BakeJobsReturned == bakerPhase = "baking" /\ AllWorkersReturned

\* C1: once every worker has returned from BakeJob, isContainCompleteBakingResult
\* is true
C1_CompleteAfterAllJobs ==
    BakeJobsReturned => isContainCompleteBakingResult

\* C2: every cluster index is claimed by at most one worker while the bake runs
\* and by exactly one once all workers have returned, and no probe index is
\* written by two different workers
C2_DisjointClaimsAndProbes ==
    bakerPhase = "baking" =>
        /\ \A c \in 1..Len(clusterClaims) : clusterClaims[c] <= 1
        /\ BakeJobsReturned => \A c \in 1..Len(clusterClaims) : clusterClaims[c] = 1
        /\ \A i \in 1..Len(probeWriters) : Cardinality(probeWriters[i]) <= 1

\* two workers have each baked probes, of different clusters, and returned
C2_Witness ==
    /\ BakeJobsReturned
    /\ Len(clusterBakePoints) >= 2
    /\ \E i, j \in 1..Len(probeWriters) :
          /\ probeWriters[i] # {} /\ probeWriters[j] # {}
          /\ probeWriters[i] # probeWriters[j]
    /\ transferableData.clusterFirstProbeIndices[2] >= 2

\* half a unit of the last decimal the file keeps
EmitterTolerance == Pow10(CoeffUnitDigits - FilePrecision) \div 2

\* the nine coefficients of every probe agree within the emitter's precision
ProbesAgree(a, b) ==
    /\ Len(a) = Len(b)
    /\ \A i \in 1..Len(a) :
          /\ Len(a[i].radianceSh) = ShSize
          /\ Len(b[i].radianceSh) = ShSize
          /\ \A k \in 1..ShSize : \A ch \in 1..3 :
                Abs(a[i].radianceSh[k][ch] - b[i].radianceSh[k][ch]) <= EmitterTolerance

\* a file written by SaveBakingResultsToFile has just been loaded
FileLoaded == bakerPhase = "loaded" /\ savedBakingData # NoValue

\* C3 as stated: the loaded BakingData equals the saved one in bakingMode,
\* bakingCluster, clusterFirstProbeIndices and the coefficients, in both modes
C3_RoundTripAllFields ==
    FileLoaded =>
        LET saved == ValueOf(savedBakingData)
        IN /\ transferableData.bakingMode = saved.bakingMode
           /\ transferableData.bakingCluster = saved.bakingCluster
           /\ transferableData.clusterFirstProbeIndices = saved.clusterFirstProbeIndices
           /\ ProbesAgree(transferableData.probes, saved.probes)

\* C3 amended: bakingMode, bakingCluster and the coefficients survive the round
\* trip in both modes; clusterFirstProbeIndices survives in AllClusters mode
\* and is loaded empty in CurrentPositionCluster mode
C3_RoundTrip ==
    FileLoaded =>
        LET saved == ValueOf(savedBakingData)
        IN /\ transferableData.bakingMode = saved.bakingMode
           /\ transferableData.bakingCluster = saved.bakingCluster
           /\ ProbesAgree(transferableData.probes, saved.probes)
           /\ IF saved.bakingMode = "AllClusters"
              THEN transferableData.clusterFirstProbeIndices = saved.clusterFirstProbeIndices
              ELSE transferableData.clusterFirstProbeIndices = <<>>

\* the file of a CurrentPositionCluster bake with probes has been loaded
C3_Witness ==
    /\ FileLoaded
    /\ ValueOf(savedBakingData).bakingMode = "CurrentPositionCluster"
    /\ ValueOf(savedBakingData).clusterFirstProbeIndices # <<>>
    /\ Len(transferableData.probes) >= 2
    /\ \E i \in 1..Len(transferableData.probes) :
          transferableData.probes[i].radianceSh # ZeroSh

\* C12: from PreBake to the end of the bake, in every bake mode, the number of probes is
\* the sum of the clusters' bake-point counts, clusterFirstProbeIndices[0] = 0 and
\* clusterFirstProbeIndices[c + 1] - clusterFirstProbeIndices[c] is the bake-point count
\* of cluster c.
C12_ProbeLayout ==
    bakerPhase = "baking" =>
        LET first == transferableData.clusterFirstProbeIndices
        IN /\ Len(first) = Len(clusterBakePoints)
           /\ Len(transferableData.probes) =
                  SumSeq([c \in 1..Len(clusterBakePoints) |-> Len(clusterBakePoints[c])])
           /\ Len(first) > 0 => first[1] = 0
           /\ \A c \in 1..(Len(first) - 1) :
                  first[c + 1] - first[c] = Len(clusterBakePoints[c])

\* C12 witness: an AllClusters bake of several clusters with bake points, some probes of
\* which are baked
C12_Witness ==
    /\ bakerPhase = "baking"
    /\ transferableData.bakingMode = "AllClusters"
    /\ probesBaked > 0
    /\ Len(clusterBakePoints) >= 2
    /\ transferableData.clusterFirstProbeIndices[2] > 0
    /\ Len(clusterBakePoints[2]) > 0

BakedClusters ==
    IF transferableData.bakingMode = "AllClusters" THEN GetClustersSet
    ELSE {ValueOf(transferableData.bakingCluster)}

\* C18: for a cluster AABB whose extent on some axis is smaller than epsilon,
\* GenerateClusterBakePoints produces exactly one bake-point coordinate along that axis
\* (so the cluster has at least one bake point).
C18_ThinAxisOneCoordinate ==
    bakerPhase = "baking" =>
        \A c \in BakedClusters :
            \A axis \in 1..3 :
                LET aabb == ValueOf(bspClusterAABB[c + 1])
                    bakePoints == clusterBakePoints[c + 1]
                IN aabb.maxVert[axis] - aabb.minVert[axis] < PATH_TRACING_EPSILON =>
                       Cardinality({bakePoints[k][axis] : k \in DOMAIN bakePoints}) = 1

\* the number of grid points of spacing bakePointsInterval in the AABB of cluster c,
\* shrunk by epsilon on every side
GridCount(c) ==
    LET aabb == ValueOf(bspClusterAABB[c + 1])
        along(axis) == Max(CeilDiv(aabb.maxVert[axis] - aabb.minVert[axis]
                                       - 2 * PATH_TRACING_EPSILON, bakePointsInterval), 0)
    IN along(1) * along(2) * along(3)

\* the bake of cluster k in CurrentPositionCluster mode produced probes for cluster k only
CurrentPositionClusterProbes(k) ==
    /\ k \in GetClustersSet
    /\ bakePosition = NoValue
    /\ Len(clusterBakePoints) = k + 1
    /\ \A c \in 0..(k - 1) : clusterBakePoints[c + 1] = <<>>
    /\ Len(transferableData.probes) = Len(clusterBakePoints[k + 1])
    /\ Len(transferableData.probes) = GridCount(k)
    /\ transferableData.clusterFirstProbeIndices[k + 1] = 0

\* C16: in CurrentPositionCluster mode with the bake position inside cluster k, after
\* the bake bakingCluster = k, every probe belongs to cluster k, the number of probes is
\* the grid count of cluster k's AABB, and isContainCompleteBakingResult is true.
C16_CurrentPositionClusterResult ==
    (/\ bakerPhase = "baking"
     /\ transferableData.bakingMode = "CurrentPositionCluster"
     /\ BakeJobsReturned) =>
        /\ transferableData.bakingCluster # NoValue
        /\ CurrentPositionClusterProbes(ValueOf(transferableData.bakingCluster))
        /\ isContainCompleteBakingResult = TRUE

\* C17: the text written by SaveBakingResultsToFile starts with the section
\* `BakingMode <m>`, <m> being the literal AllClusters for the mode AllClusters and the
\* literal CurrentPositionCluster for the mode CurrentPositionCluster.
C17_BakingModeLiteral ==
    bakingDataFile # NoFile =>
        /\ ValueOf(savedBakingData).bakingMode = "AllClusters" =>
               bakingDataFile[1] = <<"BakingMode", "AllClusters">>
        /\ ValueOf(savedBakingData).bakingMode = "CurrentPositionCluster" =>
               bakingDataFile[1] = <<"BakingMode", "CurrentPositionCluster">>

\* the number of probes whose SH coefficients have their final value
FinalisedProbes == Cardinality({i \in DOMAIN probeStatus : probeStatus[i] = "final"})

\* the workers that have finalised a probe and not yet counted it
WorkersBeforeFetchAdd == Cardinality({w \in Workers : wpc[w] = "count"})

\* C21 as stated: at every point of a bake 0 <= probesBaked <= probes.size(), probesBaked
\* never decreases and equals the number of finalised probes; when all workers have
\* finished it equals the total number of probes.
C21_ProbesBakedEqualsFinalised ==
    [][bakerPhase' = "baking" =>
           /\ 0 <= probesBaked' /\ probesBaked' <= Len(transferableData'.probes)
           /\ bakerPhase = "baking" => probesBaked' >= probesBaked
           /\ probesBaked' = FinalisedProbes'
           /\ AllWorkersReturned' => probesBaked' = Len(transferableData'.probes)]_vars

\* C21 amended: at every point of a bake 0 <= probesBaked <= probes.size(), probesBaked
\* never decreases and is the number of finalised probes less the workers that stand
\* between the last write to a probe and their fetch_add; when all workers have
\* finished it equals the total number of probes.
C21_ProbesBakedTracksFinalised ==
    [][bakerPhase' = "baking" =>
           /\ 0 <= probesBaked' /\ probesBaked' <= Len(transferableData'.probes)
           /\ bakerPhase = "baking" => probesBaked' >= probesBaked
           /\ probesBaked' = FinalisedProbes' - WorkersBeforeFetchAdd'
           /\ AllWorkersReturned' => probesBaked' = Len(transferableData'.probes)]_vars

\* C21 witness: two workers in a bake, one probe counted, another finalised by a worker
\* that has not yet counted it
C21_Witness ==
    /\ bakerPhase = "baking"
    /\ probesBaked = 1
    /\ FinalisedProbes = 2
    /\ WorkersBeforeFetchAdd = 1
    /\ Len(transferableData.probes) >= 2

\* the workers that are between the first and the last write to a probe
WritingWorkers == {w \in Workers : wpc[w] \in {"zero", "trace"}}

----------------------------------------------------------------------------
(* Frame-graph compiler: properties *)

CompileDone == compiled # NoValue

CompiledOk == CompileDone /\ ValueOf(compiled).status = "ok"

ValidationRejected ==
    CompileDone /\ ValueOf(compiled).status = "assert"
                /\ ValueOf(compiled).step = "ValidateResources"

ValidationAccepted == CompileDone /\ ~ValidationRejected

\* the resource declarations of the pass sources, as <<pass position, resource position>>
Decls ==
    UNION { { <<p, i>> : i \in DOMAIN source.passesParametersSources[p].resources } :
            p \in DOMAIN source.passesParametersSources }

DeclAt(d) == source.passesParametersSources[d[1]].resources[d[2]]

DeclInput(d) == source.passesParametersSources[d[1]].input

IsGlobalPerPass(res) == res.scope = "Global" /\ res.bindFrequency = "PerPass"

IsGlobalPerObject(res) == res.scope = "Global" /\ res.bindFrequency = "PerObject"

\* pairs of distinct declarations with the same name
SameNamePairs ==
    { pair \in Decls \X Decls :
          pair[1] # pair[2] /\ DeclAt(pair[1]).name = DeclAt(pair[2]).name }

\* the source of a compiled pass
CompiledPassSource(pass) ==
    source.passesParametersSources[FindPassParameters(source.passesParametersSources, pass.name)]

\* the compiled passes (positions in frameGraph.passes) that declare a Global PerPass
\* resource of that name
GlobalPerPassUsers(name) ==
    LET fg == ValueOf(compiled).frameGraph
    IN { p \in DOMAIN fg.passes :
           \E i \in DOMAIN CompiledPassSource(fg.passes[p].passParameters).resources :
               LET res == CompiledPassSource(fg.passes[p].passParameters).resources[i]
               IN res.name = name /\ IsGlobalPerPass(res) }

NamesInModel == {ResourceNames[h] : h \in DOMAIN ResourceNames}

\* C6: after CompileFrameGraph, a Global PerPass resource used by two or more passes has
\* exactly one argument in frameGraph.passesGlobalRes, and the passGlobalRootArgsIndices
\* of each of those passes contains the index of that entry.
C6_GlobalPerPassArgStoredOnce ==
    CompiledOk =>
        LET fg == ValueOf(compiled).frameGraph
        IN \A name \in NamesInModel :
             Cardinality(GlobalPerPassUsers(name)) >= 2 =>
                 LET entries == {k \in DOMAIN fg.passesGlobalRes :
                                    fg.passesGlobalRes[k].hashedName = HASH(name)}
                 IN /\ Cardinality(entries) = 1
                    /\ \A p \in GlobalPerPassUsers(name) : \E k \in entries :
                          \E j \in DOMAIN fg.passes[p].passParameters.passGlobalRootArgsIndices :
                              fg.passes[p].passParameters.passGlobalRootArgsIndices[j] = k - 1

\* C6 witness: a compiled frame graph in which two passes use the Global PerPass Cam
C6_Witness ==
    CompiledOk /\ Cardinality(GlobalPerPassUsers("Cam")) >= 2

\* the bind indices of the root arguments reachable from a compiled pass, one element
\* <<list, position, bindIndex>> per reachable argument
ReachableBindIndices(fg, pass) ==
    { <<"passLocal", k, pass.passLocalRootArgs[k].bindIndex>> :
          k \in DOMAIN pass.passLocalRootArgs }
    \cup { <<"perObjectLocal", k, pass.perObjectLocalRootArgsTemplate[k].bindIndex>> :
          k \in DOMAIN pass.perObjectLocalRootArgsTemplate }
    \cup { <<"passGlobal", k,
             fg.passesGlobalRes[pass.passGlobalRootArgsIndices[k] + 1].bindIndex>> :
          k \in DOMAIN pass.passGlobalRootArgsIndices }
    \cup { <<"perObjGlobal", k,
             fg.objGlobalResTemplate[pass.input][
                 pass.perObjGlobalRootArgsIndicesTemplate[k] + 1].bindIndex>> :
          k \in DOMAIN pass.perObjGlobalRootArgsIndicesTemplate }

\* C7: for every compiled pass and every root parameter index i of its root signature,
\* exactly one root argument reachable from the pass has bindIndex = i, also when a
\* global argument was deduplicated against one created by another pass.
C7_OneArgPerRootParameter ==
    CompiledOk =>
        LET fg == ValueOf(compiled).frameGraph
        IN \A p \in DOMAIN fg.passes :
             \A i \in 0..(Len(CompiledPassSource(fg.passes[p].passParameters).rootSignature) - 1) :
                 Cardinality({a \in ReachableBindIndices(fg, fg.passes[p].passParameters) : a[3] = i}) = 1

\* C8: ValidateResources rejects every set of pass sources in which a PerPass resource
\* has the name of a PerObject resource, whatever their scopes, passes and input types.
C8_PerPassPerObjectNamesDisjoint ==
    (CompileDone /\ \E pair \in SameNamePairs :
                        /\ DeclAt(pair[1]).bindFrequency = "PerPass"
                        /\ DeclAt(pair[2]).bindFrequency = "PerObject")
        => ValidationRejected

\* same-named Global PerPass declarations of two passes that are not structurally equal
UnequalGlobalPerPassPair ==
    \E pair \in SameNamePairs :
        /\ pair[1][1] # pair[2][1]
        /\ IsGlobalPerPass(DeclAt(pair[1])) /\ IsGlobalPerPass(DeclAt(pair[2]))
        /\ ~IsEqual(DeclAt(pair[1]), DeclAt(pair[2]))

\* the only declarations that share a name are Global PerPass ones of different passes
OnlyGlobalPerPassShareNames ==
    \A pair \in SameNamePairs :
        /\ pair[1][1] # pair[2][1]
        /\ IsGlobalPerPass(DeclAt(pair[1])) /\ IsGlobalPerPass(DeclAt(pair[2]))

\* the orders in which the vector can hold the same pass sources
PassPermutations(passesParametersSources) ==
    LET n == Len(passesParametersSources)
    IN { [i \in 1..n |-> passesParametersSources[f[i]]] :
             f \in {g \in [1..n -> 1..n] : \A i, j \in 1..n : g[i] = g[j] => i = j} }

\* C26: the verdict of ValidateResources does not depend on the order of the passes in
\* the vector: every permutation of the same pass sources is accepted iff the compiled
\* order was.
C26_VerdictOrderIndependent ==
    CompileDone =>
        \A permuted \in PassPermutations(source.passesParametersSources) :
            ValidateResources(permuted) <=> ~ValidationRejected

\* C9: passes that declare a same-named Global PerPass resource are rejected when the
\* declarations are not structurally equal, and, when nothing else shares a name, are
\* accepted exactly when the declarations are structurally equal.
C9_GlobalPerPassAcceptedIffEqual ==
    CompileDone =>
        /\ UnequalGlobalPerPassPair => ValidationRejected
        /\ OnlyGlobalPerPassShareNames => (ValidationAccepted <=> ~UnequalGlobalPerPassPair)

\* C9 witness: two passes declare the same Global PerPass resource, nothing else shares a
\* name, and the compiler accepted them
C9_Witness ==
    /\ ValidationAccepted /\ OnlyGlobalPerPassShareNames
    /\ \E pair \in SameNamePairs : IsGlobalPerPass(DeclAt(pair[1]))


\* same-named Global PerObject declarations of two passes
GlobalPerObjectPairs ==
    { pair \in SameNamePairs :
          /\ pair[1][1] # pair[2][1]
          /\ IsGlobalPerObject(DeclAt(pair[1])) /\ IsGlobalPerObject(DeclAt(pair[2])) }

\* the only declarations that share a name are Global PerObject ones of different passes
OnlyGlobalPerObjectShareNames == SameNamePairs = GlobalPerObjectPairs

\* C10: same-named Global PerObject declarations of passes with different input types
\* are accepted whatever their structure; those of passes with the same input type are
\* accepted only if they are structurally equal.
C10_GlobalPerObjectPerInputType ==
    CompileDone =>
        /\ (\E pair \in GlobalPerObjectPairs :
                /\ DeclInput(pair[1]) = DeclInput(pair[2])
                /\ ~IsEqual(DeclAt(pair[1]), DeclAt(pair[2])))
           => ValidationRejected
        /\ (/\ OnlyGlobalPerObjectShareNames
            /\ \A pair \in GlobalPerObjectPairs :
                   \/ DeclInput(pair[1]) # DeclInput(pair[2])
                   \/ IsEqual(DeclAt(pair[1]), DeclAt(pair[2])))
           => ValidationAccepted

\* C10 witness: passes of different input types declare a Global PerObject Cam with
\* different fields, and the compiler accepted them
C10_Witness ==
    /\ ValidationAccepted
    /\ \E pair \in GlobalPerObjectPairs :
           /\ DeclInput(pair[1]) # DeclInput(pair[2])
           /\ ~IsEqual(DeclAt(pair[1]), DeclAt(pair[2]))


----------------------------------------------------------------------------
(* Frame-graph hot reload: properties *)

\* the Pass_t alternative that belongs to each input type
VariantOfInput ==
    [UI |-> "Pass_UI", Static |-> "Pass_Static", Dynamic |-> "Pass_Dynamic",
     Particles |-> "Pass_Particles"]

\* the listed names that no pass source carries
ListedWithoutSource ==
    {i \in DOMAIN source.passes :
        \A k \in DOMAIN source.passesParametersSources :
            source.passesParametersSources[k].name # source.passes[i]}

\* C13: after a successful CompileFrameGraph, frameGraph.passes has one pass per listed
\* name, in list order, the i-th compiled from the pass source named by the i-th listed
\* name and of the variant of that source's input type; a listed name without a pass
\* source fails the build.
C13_PassesFollowList ==
    compiled # NoValue =>
        LET result == ValueOf(compiled)
            passes == result.frameGraph.passes
        IN /\ result.status = "ok" =>
                /\ Len(passes) = Len(source.passes)
                /\ \A i \in DOMAIN passes :
                       LET passSource == CompiledPassSource(passes[i].passParameters)
                       IN /\ passes[i].passParameters.name = source.passes[i]
                          /\ passSource.name = source.passes[i]
                          /\ passes[i].passParameters.input = passSource.input
                          /\ Len(passes[i].passParameters.passLocalRootArgs) =
                                 Len(passSource.rootSignature)
                          /\ passes[i].variant = VariantOfInput[passSource.input]
           /\ ListedWithoutSource # {} => result.status # "ok"

\* C13 witness: a frame graph compiled from a list that names the pass files in reverse
\* file order, the two passes being of different variants, neither Pass_UI
C13_Witness ==
    /\ compiled # NoValue
    /\ ValueOf(compiled).status = "ok"
    /\ source.passes = <<PassFileNames[2], PassFileNames[1]>>
    /\ Len(ValueOf(compiled).frameGraph.passes) = 2
    /\ ValueOf(compiled).frameGraph.passes[1].variant = "Pass_Particles"
    /\ ValueOf(compiled).frameGraph.passes[2].variant = "Pass_Dynamic"
    /\ Len(ValueOf(compiled).frameGraph.passes[1].passParameters.passLocalRootArgs) = 1
    /\ Len(ValueOf(compiled).frameGraph.passes[2].passParameters.passLocalRootArgs) = 0

\* the text with the directive span [pos, pos + len) replaced by the named file
ReplaceSpan(text, include) ==
    SubSeq(text, 1, include.pos) \o ReadFile(include.name)
        \o SubSeq(text, include.pos + include.len + 1, Len(text))

\* the text with the first k directives replaced, the last of them first
RECURSIVE Substituted(_, _, _)
Substituted(text, includes, k) ==
    IF k = 0 THEN text ELSE Substituted(ReplaceSpan(text, includes[k]), includes, k - 1)

\* C14: for a pass file with any number of include directives at non-overlapping
\* positions, PreprocessPassFiles produces the original text with each directive span
\* replaced by the content of the named file and every other character kept once, in
\* its original order.
C14_IncludesSubstituted ==
    preprocessed # NoValue =>
        /\ ValueOf(preprocessed).status = "ok"
        /\ ValueOf(preprocessed).text =
               Substituted(currentFile, fileIncludes, Len(fileIncludes))

\* the value returned for the distance d2, d0 and dMax being those of the call, is
\* smaller than the value the call returned, for every farther d2 below dMax
SmallerFartherOut ==
    \A d2 \in Distances :
        (falloffArgs.dist < d2 /\ d2 < falloffArgs.distMax) =>
            RatLess(CalculateDistanceFalloff(d2, falloffArgs.dist0, falloffArgs.distMax).value,
                    ValueOf(falloffResult).value)

C4_FailedRebuildKeepsGraph ==
    buildFailure # "none" => outFrameGraph = graphBeforeCall

\* C5: a rebuild replaces outFrameGraph only after FlushAllFrames has completed in the same
\* call, with no frame left in flight; and the call made when the source is not dirty
\* returns false without flushing frames and without changing outFrameGraph.
C5_FlushBeforeReplace ==
    [][/\ outFrameGraph' # outFrameGraph => (flushedFrames # NoValue /\ framesInFlight = 0)
       /\ (buildPc = "IsSourceChanged" /\ buildPc' # buildPc /\ sourceWatchHandle = "waiting")
            => /\ buildPc' = "idle" /\ buildReturn' = "false"
               /\ outFrameGraph' = outFrameGraph
               /\ framesInFlight' = framesInFlight
               /\ flushedFrames' = NoValue]_vars

\* C5 witness: a rebuild that flushed frames in flight has replaced an earlier frame graph
C5_Witness ==
    /\ buildReturn = "true"
    /\ graphBeforeCall # NoValue /\ outFrameGraph # graphBeforeCall
    /\ flushedFrames # NoValue /\ ValueOf(flushedFrames) > 0


----------------------------------------------------------------------------
(* Descriptor tables: properties *)

\* the <<resource kind, register>> of the entries of a descriptor table, in declaration
\* order, from the e-th entity on
RECURSIVE TableEntries(_, _)
TableEntries(entities, e) ==
    IF e > Len(entities) THEN <<>>
    ELSE [i \in 1..entities[e].num |->
             <<EntityResourceKind(entities[e]), entities[e].registerId + i - 1>>]
         \o TableEntries(entities, e + 1)

\* the resources a descriptor table of the first pass source names, in declaration order
TableResources(rootParam) ==
    LET ps == source.passesParametersSources[1]
        entries == TableEntries(rootParam.entities, 1)
    IN [k \in DOMAIN entries |->
           CHOOSE r \in {ps.resources[n] : n \in DOMAIN ps.resources} :
               r.kind = entries[k][1] /\ r.registerId = entries[k][2]]

\* the root arguments reachable from a compiled pass, as <<scope, bind frequency, arg>>
RoutedArgs(fg, pass) ==
    { <<"Local", "PerPass", pass.passLocalRootArgs[k]>> :
          k \in DOMAIN pass.passLocalRootArgs }
    \cup { <<"Local", "PerObject", pass.perObjectLocalRootArgsTemplate[k]>> :
          k \in DOMAIN pass.perObjectLocalRootArgsTemplate }
    \cup { <<"Global", "PerPass", fg.passesGlobalRes[pass.passGlobalRootArgsIndices[k] + 1]>> :
          k \in DOMAIN pass.passGlobalRootArgsIndices }
    \cup { <<"Global", "PerObject",
             fg.objGlobalResTemplate[pass.input][
                 pass.perObjGlobalRootArgsIndicesTemplate[k] + 1]>> :
          k \in DOMAIN pass.perObjGlobalRootArgsIndicesTemplate }

\* C11: lowering a descriptor-table root parameter fails when two of its entries'
\* resources differ in scope or in bind frequency; when all agree, exactly one DescTable
\* argument is produced, it holds the entries in declaration order and it is routed by
\* the shared scope and bind frequency.
C11_DescTableLowering ==
    CompileDone =>
        LET ps == source.passesParametersSources[1]
        IN \A i \in DOMAIN ps.rootSignature :
             ps.rootSignature[i].type = "DescTable" =>
                 LET res == TableResources(ps.rootSignature[i])
                     mixed == \E j, k \in DOMAIN res :
                                  \/ res[j].scope # res[k].scope
                                  \/ res[j].bindFrequency # res[k].bindFrequency
                 IN IF mixed
                    THEN /\ ValueOf(compiled).status = "assert"
                         /\ ValueOf(compiled).step = "CreateResourceArguments"
                    ELSE /\ CompiledOk
                         /\ LET fg == ValueOf(compiled).frameGraph
                                tables == {a \in RoutedArgs(fg, fg.passes[1].passParameters) :
                                              /\ a[3].type = "DescTable"
                                              /\ a[3].bindIndex = i - 1}
                            IN /\ Cardinality(tables) = 1
                               /\ \A a \in tables :
                                    /\ a[1] = res[1].scope
                                    /\ a[2] = res[1].bindFrequency
                                    /\ Len(a[3].content) = Len(res)
                                    /\ \A k \in DOMAIN res :
                                          a[3].content[k].hashedName = HASH(res[k].name)

\* C11 witness: a compiled pass holds a Global descriptor table of three entries
C11_Witness ==
    /\ CompiledOk
    /\ Len(ValueOf(compiled).frameGraph.passes) = 1
    /\ \E a \in RoutedArgs(ValueOf(compiled).frameGraph, ValueOf(compiled).frameGraph.passes[1].passParameters) :
           a[1] = "Global" /\ a[3].type = "DescTable" /\ Len(a[3].content) = 3



\* the source watcher reports a change to the next IsSourceChanged: the handle is not
\* yet created or is signalled
Dirty(handle) == handle \in {"INVALID_HANDLE_VALUE", "signalled"}

\* C20 as stated: the dirty flag of the source watcher is reset only after the rebuild
\* from disk has completed (drain, discard the current graph, rebuild, reset dirty).
C20_ResetAfterRebuild ==
    [][(Dirty(sourceWatchHandle) /\ ~Dirty(sourceWatchHandle')) =>
           (buildPc = "CompileFrameGraph" /\ buildPc' = "idle")]_vars

\* C20 amended: a BuildFrameGraph call resets the dirty flag in IsSourceChanged, before
\* it drains the frames in flight; then it drains, then it rebuilds from disk and only
\* then replaces the current graph, and the rebuild leaves the flag as it finds it.
C20_ResetThenDrainThenRebuild ==
    [][/\ (Dirty(sourceWatchHandle) /\ ~Dirty(sourceWatchHandle')) =>
              (buildPc = "IsSourceChanged" /\ buildPc' = "FlushAllFrames")
       /\ (buildPc = "IsSourceChanged" /\ buildPc' # buildPc) =>
              ~Dirty(sourceWatchHandle')
       /\ (buildPc = "FlushAllFrames" /\ buildPc' # buildPc) =>
              (/\ buildPc' = "CompileFrameGraph"
               /\ framesInFlight' = 0
               /\ outFrameGraph' = outFrameGraph
               /\ sourceWatchHandle' = sourceWatchHandle)
       /\ (buildPc = "CompileFrameGraph" /\ buildPc' # buildPc) =>
              sourceWatchHandle' = sourceWatchHandle
       /\ outFrameGraph' # outFrameGraph =>
              (buildPc = "CompileFrameGraph" /\ buildPc' = "idle")]_vars

\* C20 witness: a call that found the flag set has drained the frames and replaced the
\* graph by one rebuilt from disk, and a file written during the rebuild has set the
\* flag again
C20_Witness ==
    /\ buildPc = "idle"
    /\ buildReturn = "true"
    /\ graphBeforeCall # NoValue
    /\ outFrameGraph # graphBeforeCall
    /\ flushedFrames # NoValue
    /\ ValueOf(flushedFrames) > 0
    /\ sourceWatchHandle = "signalled"

----------------------------------------------------------------------------
(* Buffer allocator: properties *)

\* the last call was an Allocate that returned an offset
AllocateSucceeded ==
    /\ bufferCall.op = "Allocate"
    /\ bufferCall.status = "returned"
    /\ bufferCall.ret # INVALID_OFFSET

\* the records at positions i and j cover a common byte
Overlap(allocs, i, j) ==
    /\ allocs[i].offset < allocs[j].offset + allocs[j].size
    /\ allocs[j].offset < allocs[i].offset + allocs[i].size

\* the offset lies inside a record of allocs
InsideAllocation(allocs, offset) ==
    \E i \in DOMAIN allocs : allocs[i].offset <= offset /\ offset < allocs[i].offset + allocs[i].size

\* C23: after any sequence of Allocate, Delete and ClearAll calls the recorded
\* allocations are pairwise non-overlapping and lie within [0, SIZE), and Allocate never
\* returns an offset inside an allocation that was live when it was called.
C23_AllocationsDisjoint ==
    /\ \A i, j \in DOMAIN allocations : i # j => ~Overlap(allocations, i, j)
    /\ \A i \in DOMAIN allocations :
           0 <= allocations[i].offset /\ allocations[i].offset + allocations[i].size <= BufferSize
    /\ AllocateSucceeded => ~InsideAllocation(bufferCall.before, bufferCall.ret)

\* the records of a list, with their multiplicity
RecordBag(allocs) ==
    [rec \in {allocs[i] : i \in DOMAIN allocs} |->
         Cardinality({i \in DOMAIN allocs : allocs[i] = rec})]

\* C24: a successful Allocate(size) adds exactly one record, of the requested size and
\* at the returned offset, and Delete of the returned offset then restores the
\* allocations the allocator had before.
C24_AllocateAddsOneRecord ==
    AllocateSucceeded =>
        /\ \E pos \in 1..(Len(bufferCall.before) + 1) :
               allocations = ListInsert(bufferCall.before, pos,
                                        Allocation(bufferCall.ret, bufferCall.arg))
        /\ RecordBag(BufferAllocator_Delete(allocations, bufferCall.ret).allocations)
               = RecordBag(bufferCall.before)

\* none of the three checks of Allocate(size) finds room in allocs
NoRegionFound(allocs, size) ==
    /\ AllocateBefore(allocs, size) = allocs
    /\ AllocateBetween(allocs, size, 1) = 0
    /\ allocs # <<>> => BufferSize - (allocs[Len(allocs)].offset + allocs[Len(allocs)].size) < size

\* the last call was an Allocate none of whose checks found room
AllocateFoundNoRegion ==
    bufferCall.op = "Allocate" /\ NoRegionFound(bufferCall.before, bufferCall.arg)

\* C30 as stated: when Allocate(size) finds no free region before, between or after the
\* allocations, it returns INVALID_OFFSET and leaves the allocations unchanged.
C30_ReturnsInvalidOffset ==
    AllocateFoundNoRegion =>
        /\ bufferCall.status = "returned" /\ bufferCall.ret = INVALID_OFFSET
        /\ allocations = bufferCall.before

\* C30 amended: when Allocate(size) finds no free region before, between or after the
\* allocations, it leaves the allocations unchanged; the build with asserts stops at
\* assert(false), the build without them returns INVALID_OFFSET.
C30_FailsWithoutChange ==
    AllocateFoundNoRegion =>
        /\ allocations = bufferCall.before
        /\ IF assertsEnabled THEN bufferCall.status = "assert"
           ELSE bufferCall.status = "returned" /\ bufferCall.ret = INVALID_OFFSET

\* C30 witness: Allocate without asserts on a list with records found no region and
\* returned INVALID_OFFSET
C30_Witness ==
    /\ AllocateFoundNoRegion
    /\ ~assertsEnabled
    /\ bufferCall.before # <<>>
    /\ bufferCall.ret = INVALID_OFFSET
    /\ bufferCall.status = "returned"

\* the last call was a HandlerBuffer::Allocate that returned
HandlerAllocateReturned ==
    bufferCall.op = "HandlerAllocate" /\ bufferCall.status = "returned"

\* C28: after any sequence of HandlerBuffer Allocate and Delete calls every live handler
\* maps to a valid offset, Allocate never returns a handler that is live, two live
\* handlers never map to the same offset, and GetOffset(h) is the offset h obtained when
\* it was allocated.
C28_LiveHandlersDistinct ==
    /\ \A h \in LiveHandlers : GetOffset(h) # INVALID_OFFSET
    /\ HandlerAllocateReturned => bufferCall.before[bufferCall.ret + 1] = NoValue
    /\ \A h1, h2 \in LiveHandlers : h1 # h2 => GetOffset(h1) # GetOffset(h2)
    /\ \A h \in LiveHandlers : GetOffset(h) = ValueOf(handlerOffsets[h + 1])

----------------------------------------------------------------------------
(* Object values: properties *)

\* every value that was created has been destroyed
AllObjectsDestroyed ==
    /\ \A o \in ObjectIds : objects[o].state # "alive"
    /\ \E o \in ObjectIds : objects[o].state = "destroyed"

\* C27: over any sequence of move constructions, move assignments and destructions,
\* no offset or handler is released twice, and once all values are destroyed every
\* offset or handler a value owned has been released exactly once.
C27_ReleasedExactlyOnce ==
    /\ \A r \in DOMAIN releases : releases[r] <= 1
    /\ AllObjectsDestroyed =>
           \A r \in 0..(acquiredResources - 1) : releases[r] = 1

----------------------------------------------------------------------------
(* Frames: properties *)

\* every Frame that was created has been destroyed
AllFramesDestroyed ==
    /\ \A f \in FrameIds : frames[f].state # "alive"
    /\ \E f \in FrameIds : frames[f].state = "destroyed"

\* C29: the depth-buffer view index a Frame obtains in Init is released, on destruction
\* of the Frame that finally owns it, to the heap it was allocated from: every Delete
\* goes to dsvHeap with an index allocated there, and once all frames are destroyed no
\* index is left allocated in dsvHeap.
C29_ViewIndexReleasedToItsHeap ==
    /\ \A d \in heapDeletes : d.heap = "dsvHeap" /\ d.allocated
    /\ AllFramesDestroyed => dsvHeap = {}

----------------------------------------------------------------------------
(* Path tracer: properties *)

PathEnded == pathPc \in {"returned", "assert"}

\* no closest-hit query follows a query that missed
StopsAtFirstMiss == \A q \in 1..(Len(pathHits) - 1) : pathHits[q]

\* C22: PathTraceFromProbe always terminates; it performs at most
\* GUARANTEED_BOUNCES_NUM closest-hit queries, stops at the first query that misses, and
\* never draws the Russian-roulette sample.
C22_TerminatesWithinGuaranteedBounces ==
    /\ <>PathEnded
    /\ [](/\ Len(pathHits) <= GUARANTEED_BOUNCES_NUM
          /\ StopsAtFirstMiss
          /\ rouletteDraws = 0
          /\ PathEnded /\ pathPc = "returned" /\ Len(pathHits) < GUARANTEED_BOUNCES_NUM
                 => Len(pathHits) > 0 /\ ~pathHits[Len(pathHits)])

\* C22 witness: a call whose every query hit has returned after GUARANTEED_BOUNCES_NUM
\* queries
C22_Witness ==
    /\ pathPc = "returned"
    /\ Len(pathHits) = GUARANTEED_BOUNCES_NUM
    /\ \A q \in DOMAIN pathHits : pathHits[q]
    /\ rayBounce = GUARANTEED_BOUNCES_NUM

====
